---- MODULE Spec2Model ----
(***************************************************************************)
(* Access control, session guard, violation tracker, delivery and unread   *)
(* counters of the messaging backend.                                      *)
(*                                                                         *)
(*   Spec        every HTTP handler runs to completion before the next     *)
(*               request starts (sequential requests).                     *)
(*   SpecConc    login, logout and violation requests of one user          *)
(*               interleave at their await points; each request works on   *)
(*               its own copy of the user document and save() sends only   *)
(*               the paths that copy modified.                             *)
(*   SpecCounter the read / write steps of the unread counter service      *)
(*               interleave.                                               *)
(***************************************************************************)
EXTENDS Integers, Sequences, FiniteSets, TLC

\* ------------------------------------------------------------------ bounds
MaxTokens == 2      \* session tokens generated for the requesting clients
MaxLog    == 3      \* length of one user's securityViolations array
MaxMsgs   == 2      \* documents in the message collections
MaxCount  == 2      \* value of one unread counter (interleaved counter steps)
MaxRelog  == 5      \* length of the securityViolations array in the runs with unblocks

\* ---------------------------------------------------------------- universe
Regulars     == {"U1", "U2"}
Admins       == {"A1"}
Users        == Regulars \cup Admins
Fingerprints == {"F1", "F2"}
NoFp         == "none"
\* the clients that send requests in the bounded runs: one regular user and
\* the admin; the other regular user is only addressed
Clients      == {"U1", "A1"}

BlockThreshold    == 3
AutoBlockReason   == "Multiple security violations"
AdminBlockReason  == "reason given by admin"

ViolationEnum == {"screenshot_attempt", "copy_attempt", "unauthorized_access",
                  "multiple_login_attempt"}
validTypes    == {"screenshot_attempt", "copy_attempt", "forward_attempt",
                  "unauthorized_access"}

VARIABLES
  users,      \* User collection: userId -> document
  issued,     \* issued[n] = user the JWT carrying session token n was given to
  last,       \* the last HTTP response: route, requesting user, status code
  messages,       \* Message collection, in insertion order; the index is the _id
  groupMessages,  \* GroupMessage collection
  chats,          \* Firebase chats/{a_b}: the published copies of direct messages
  groupChats,     \* Firebase group_chats/{groupId}
  unread,         \* Firebase unread_counts/{userId}
  pushed,         \* calls made to the FCM gateway: message, recipient, result
  secureMessages, \* SecureMessage collection
  procs           \* requests in flight (interleaved specifications)

authVars  == <<users, issued>>
storeVars == <<messages, groupMessages, chats, groupChats, unread, pushed,
               secureMessages>>
vars == <<users, issued, last, messages, groupMessages, chats, groupChats, unread,
          pushed, secureMessages, procs>>

\* ------------------------------------------------------------ Firebase tree
\* unread_counts/{userId}: the direct and groups children hold one number per
\* partner / group that has one; total is absent (<<>>) or a number (<<n>>).
EmptyNode == [k \in {} |-> 0]
NoCounts  == [direct |-> EmptyNode, groups |-> EmptyNode, total |-> <<>>]

\* snapshot.val() || 0
Val(node, k) == IF k \in DOMAIN node THEN node[k] ELSE 0
\* ref.set(v) and ref.remove() on a child
SetChild(node, k, v) == [x \in DOMAIN node \cup {k} |-> IF x = k THEN v ELSE node[x]]
RemoveChild(node, k) == [x \in DOMAIN node \ {k} |-> node[x]]

RECURSIVE SumOver(_, _)
SumOver(node, keys) ==
  IF keys = {} THEN 0
  ELSE LET k == CHOOSE x \in keys : TRUE
       IN node[k] + SumOver(node, keys \ {k})

getUserUnreadCounts(counts) ==
  [direct |-> counts.direct, groups |-> counts.groups,
   total  |-> SumOver(counts.direct, DOMAIN counts.direct)
              + SumOver(counts.groups, DOMAIN counts.groups)]

updateTotalUnreadCount(counts) ==
  [counts EXCEPT !.total = <<getUserUnreadCounts(counts).total>>]

\* one database call on unread_counts/{userId}/{branch}/{key}
refVal(counts, branch, key) == Val(counts[branch], key)
\* variant: set() that stores one more than it was given
refSetOneMore(counts, branch, key, v) == [counts EXCEPT ![branch] = SetChild(@, key, v + 1)]
refSet(counts, branch, key, v) == [counts EXCEPT ![branch] = SetChild(@, key, v)]
\* variant: remove() that leaves one unread message behind
refRemoveButOne(counts, branch, key) ==
  IF Val(counts[branch], key) > 1
  THEN [counts EXCEPT ![branch] = SetChild(@, key, 1)]
  ELSE [counts EXCEPT ![branch] = RemoveChild(@, key)]

refRemove(counts, branch, key) == [counts EXCEPT ![branch] = RemoveChild(@, key)]

\* the service calls as they run when no other request runs in between
\* variant: the counter is set to 1 whatever it held
incrementDirectUnreadCountFromZero(counts, fromUserId) ==
  updateTotalUnreadCount(refSet(counts, "direct", fromUserId, 1))

incrementDirectUnreadCount(counts, fromUserId) ==
  updateTotalUnreadCount(
    refSet(counts, "direct", fromUserId, refVal(counts, "direct", fromUserId) + 1))

incrementGroupMember(counts, groupId) ==
  updateTotalUnreadCount(
    refSet(counts, "groups", groupId, refVal(counts, "groups", groupId) + 1))

clearDirectUnreadCount(counts, partnerId) ==
  updateTotalUnreadCount(refRemove(counts, "direct", partnerId))

clearGroupUnreadCount(counts, groupId) ==
  updateTotalUnreadCount(refRemove(counts, "groups", groupId))

\* ------------------------------------------------------------ groups
\* Group documents (group CRUD is not part of the model): G1 and G3 are
\* active, G2 is inactive, any other id is not found.
Groups == {"G1", "G2", "G3"}
NoGroup == "G0"
GroupDoc(g) ==
  CASE g = "G1" -> [members |-> {"A1", "U1", "U2"}, isActive |-> TRUE]
    [] g = "G2" -> [members |-> {"A1", "U1"},       isActive |-> FALSE]
    [] g = "G3" -> [members |-> {"A1", "U2"},       isActive |-> TRUE]

\* ------------------------------------------------------------ User document
NewSecurityProfile ==
  [screenshotAttempts |-> 0, copyAttempts |-> 0, securityViolations |-> <<>>,
   isBlocked |-> FALSE, blockReason |-> "undefined", blockedAt |-> "undefined"]

NewUser(admin) ==
  [exists |-> FALSE, isAdmin |-> admin, fcmTokens |-> FALSE, isDeleted |-> FALSE,
   activeSession |-> [deviceFingerprint |-> NoFp, sessionToken |-> 0, isActive |-> TRUE],
   securityProfile |-> NewSecurityProfile]

createDeviceSession(doc, deviceFingerprint, sessionToken) ==
  IF ~doc.isAdmin
  THEN [doc EXCEPT !.activeSession = [deviceFingerprint |-> deviceFingerprint,
                                      sessionToken |-> sessionToken,
                                      isActive |-> TRUE]]
  ELSE doc

\* variant: the fingerprint is not compared
validateDeviceSessionAnyDevice(doc, deviceFingerprint, sessionToken) ==
  IF doc.isAdmin THEN TRUE
  ELSE /\ doc.activeSession.isActive
       /\ doc.activeSession.sessionToken = sessionToken

\* variant: the isActive flag is not consulted
validateDeviceSessionIgnoringActive(doc, deviceFingerprint, sessionToken) ==
  IF doc.isAdmin THEN TRUE
  ELSE /\ doc.activeSession.deviceFingerprint = deviceFingerprint
       /\ doc.activeSession.sessionToken = sessionToken

validateDeviceSession(doc, deviceFingerprint, sessionToken) ==
  IF doc.isAdmin THEN TRUE
  ELSE /\ doc.activeSession.isActive
       /\ doc.activeSession.deviceFingerprint = deviceFingerprint
       /\ doc.activeSession.sessionToken = sessionToken

\* variant: revoking the session also lifts a block
revokeDeviceSessionLiftingBlock(doc) ==
  [doc EXCEPT !.activeSession.isActive = FALSE, !.securityProfile.isBlocked = FALSE]

\* variant: the session is left as it is
revokeDeviceSessionKeepingIt(doc) == doc

revokeDeviceSession(doc) == [doc EXCEPT !.activeSession.isActive = FALSE]

\* variant: the new event is put in front of the log
recordSecurityViolationInFront(doc, type) ==
  LET sp  == doc.securityProfile
      sp1 == [sp EXCEPT
                !.screenshotAttempts = IF type = "screenshot_attempt" THEN @ + 1 ELSE @,
                !.copyAttempts       = IF type = "copy_attempt" THEN @ + 1 ELSE @,
                !.securityViolations = <<type>> \o @]
      sp2 == IF Len(sp1.securityViolations) >= BlockThreshold
             THEN [sp1 EXCEPT !.isBlocked = TRUE,
                              !.blockReason = AutoBlockReason,
                              !.blockedAt = "date"]
             ELSE sp1
  IN [doc EXCEPT !.securityProfile = sp2]

\* variant: the block is applied only by the event that reaches the threshold
recordSecurityViolationOnce(doc, type) ==
  LET sp  == doc.securityProfile
      sp1 == [sp EXCEPT
                !.screenshotAttempts = IF type = "screenshot_attempt" THEN @ + 1 ELSE @,
                !.copyAttempts       = IF type = "copy_attempt" THEN @ + 1 ELSE @,
                !.securityViolations = Append(@, type)]
      sp2 == IF Len(sp1.securityViolations) = BlockThreshold
             THEN [sp1 EXCEPT !.isBlocked = TRUE,
                              !.blockReason = AutoBlockReason,
                              !.blockedAt = "date"]
             ELSE sp1
  IN [doc EXCEPT !.securityProfile = sp2]

\* variant: the block is applied only once the log exceeds the threshold
recordSecurityViolationLate(doc, type) ==
  LET sp  == doc.securityProfile
      sp1 == [sp EXCEPT
                !.screenshotAttempts = IF type = "screenshot_attempt" THEN @ + 1 ELSE @,
                !.copyAttempts       = IF type = "copy_attempt" THEN @ + 1 ELSE @,
                !.securityViolations = Append(@, type)]
      sp2 == IF Len(sp1.securityViolations) > BlockThreshold
             THEN [sp1 EXCEPT !.isBlocked = TRUE,
                              !.blockReason = AutoBlockReason,
                              !.blockedAt = "date"]
             ELSE sp1
  IN [doc EXCEPT !.securityProfile = sp2]

recordSecurityViolation(doc, type) ==
  LET sp  == doc.securityProfile
      sp1 == [sp EXCEPT
                !.screenshotAttempts = IF type = "screenshot_attempt" THEN @ + 1 ELSE @,
                !.copyAttempts       = IF type = "copy_attempt" THEN @ + 1 ELSE @,
                !.securityViolations = Append(@, type)]
      sp2 == IF Len(sp1.securityViolations) >= BlockThreshold
             THEN [sp1 EXCEPT !.isBlocked = TRUE,
                              !.blockReason = AutoBlockReason,
                              !.blockedAt = "date"]
             ELSE sp1
  IN [doc EXCEPT !.securityProfile = sp2]

\* fcmTokens: whether the document holds an active FCM token
addFcmToken(doc) == [doc EXCEPT !.fcmTokens = TRUE]
getActiveFcmTokens(doc) == doc.fcmTokens

isUserBlocked(doc) == doc.securityProfile.isBlocked

\* variant: the violation log is emptied with the block
unblockUserClearingLog(doc) ==
  [doc EXCEPT !.securityProfile.isBlocked = FALSE,
              !.securityProfile.blockReason = "null",
              !.securityProfile.blockedAt = "null",
              !.securityProfile.securityViolations = <<>>]

unblockUser(doc) ==
  [doc EXCEPT !.securityProfile.isBlocked = FALSE,
              !.securityProfile.blockReason = "null",
              !.securityProfile.blockedAt = "null"]

\* save() validates the document against the schema: every violation type
\* must be a member of the schema's enum.
SaveValid(doc) ==
  \A i \in 1..Len(doc.securityProfile.securityViolations) :
     doc.securityProfile.securityViolations[i] \in ViolationEnum

\* ------------------------------------------------------------ requests
\* A presented Authorization header.  sig = "ok": a JWT this server signed and
\* that has not expired; "expired": signed but past its expiry; "none": header
\* missing, malformed, or the signature does not verify.
SigKinds == {"ok", "expired", "none"}

\* JWTs a client can hold: one per session token issued to a regular user,
\* and the admin's token, which carries no session token.
HeldBy(u) ==
  IF u \in Admins THEN {0}
  ELSE {n \in 1..Len(issued) : issued[n] = u}

Jwts == {[userId |-> u, sessionToken |-> n, sig |-> s] :
           u \in Users, n \in 0..MaxTokens, s \in SigKinds}

Presentable == {j \in Jwts : j.sessionToken \in HeldBy(j.userId)}

\* a response: route, requesting user, status code and, for an accepted send,
\* the message id and the realtime path of the body
NoData == [id |-> 0, path |-> {}]
RespData(op, user, status, data) ==
  [op |-> op, user |-> user, status |-> status, data |-> data]
Resp(op, user, status) == RespData(op, user, status, NoData)

RegularClients == Clients \cap Regulars
OkJwt(u, n) == [userId |-> u, sessionToken |-> n, sig |-> "ok"]
Log(u) == users[u].securityProfile.securityViolations

\* idle users' tokens do not count against the bound on generated tokens
TokenLimit == MaxTokens + Cardinality({n \in 1..Len(issued) : issued[n] \notin Clients})

\* ------------------------------------------------------------ phoneAuth.js
generateSessionToken == Len(issued) + 1

\* variant: the JWT is signed for another session token
generateJWTForNextSession(userId, sessionToken) ==
  [userId |-> userId, sessionToken |-> sessionToken + 1, sig |-> "ok"]

\* jwt.sign({ userId, sessionToken }, secret, { expiresIn })
generateJWT(userId, sessionToken) ==
  [userId |-> userId, sessionToken |-> sessionToken, sig |-> "ok"]

\* POST /api/phone-auth/register
RegisterStatus(u, fp) ==
  IF fp = NoFp THEN 400
  ELSE IF users[u].exists THEN 400
  ELSE 201

Register(u, fp) ==
  LET st == RegisterStatus(u, fp) IN
  /\ st = 201 => Len(issued) < TokenLimit
  /\ IF st = 201
     THEN /\ users' = [users EXCEPT ![u] =
                 createDeviceSession([NewUser(FALSE) EXCEPT !.exists = TRUE],
                                     fp, generateSessionToken)]
          /\ issued' = Append(issued, u)
     ELSE UNCHANGED <<users, issued>>
  /\ last' = Resp("register", u, st)
  /\ UNCHANGED <<storeVars, procs>>

\* POST /api/phone-auth/login, lines 144-157: single device enforcement and
\* the new session.
\* variant: a login over any active session counts as another device
LoginDetectsAnyActiveSession(doc, fp) == doc.activeSession.isActive

\* variant: a login from another device is not noticed
LoginDetectsNothing(doc, fp) == FALSE

LoginDetectsOtherDevice(doc, fp) ==
  doc.activeSession.isActive /\ doc.activeSession.deviceFingerprint # fp

LoginSession(doc, fp, tok) ==
  createDeviceSession(
     IF LoginDetectsOtherDevice(doc, fp)
     THEN recordSecurityViolation(revokeDeviceSession(doc), "multiple_login_attempt")
     ELSE doc,
     fp, tok)

LoginStatus(u, fp, uidOk) ==
  IF fp = NoFp THEN 400
  ELSE IF ~users[u].exists THEN 404
  ELSE IF isUserBlocked(users[u]) THEN 403
  ELSE IF ~uidOk THEN 401
  ELSE 200

Login(u, fp, uidOk) ==
  LET st == LoginStatus(u, fp, uidOk) IN
  /\ st = 200 => /\ Len(issued) < TokenLimit
                 /\ LoginDetectsOtherDevice(users[u], fp) =>
                      Len(users[u].securityProfile.securityViolations) < MaxLog
  /\ IF st = 200
     THEN /\ users' = [users EXCEPT ![u] = LoginSession(@, fp, generateSessionToken)]
          /\ issued' = Append(issued, u)
     ELSE UNCHANGED <<users, issued>>
  /\ last' = Resp("login", u, st)
  /\ UNCHANGED <<storeVars, procs>>

\* POST /api/phone-auth/logout
LogoutStatus(jwt) ==
  IF jwt.sig = "none" THEN 401
  ELSE IF jwt.sig = "expired" THEN 500
  ELSE IF ~users[jwt.userId].exists THEN 404
  ELSE 200

Logout(jwt) ==
  LET st == LogoutStatus(jwt) IN
  /\ IF st = 200
     THEN users' = [users EXCEPT ![jwt.userId] = revokeDeviceSession(@)]
     ELSE UNCHANGED users
  /\ UNCHANGED issued
  /\ last' = Resp("logout", jwt.userId, st)
  /\ UNCHANGED <<storeVars, procs>>

\* GET /api/phone-auth/validate-session
ValidateSessionStatus(jwt, fp) ==
  IF jwt.sig = "none" THEN 401
  ELSE IF fp = NoFp THEN 400
  ELSE IF jwt.sig = "expired" THEN 401
  ELSE IF ~users[jwt.userId].exists THEN 404
  ELSE IF isUserBlocked(users[jwt.userId]) THEN 403
  ELSE IF ~validateDeviceSession(users[jwt.userId], fp, jwt.sessionToken) THEN 401
  ELSE 200

ValidateSession(jwt, fp) ==
  /\ UNCHANGED <<users, issued>>
  /\ last' = Resp("validate-session", jwt.userId, ValidateSessionStatus(jwt, fp))
  /\ UNCHANGED <<storeVars, procs>>

\* POST /api/phone-auth/refresh-token
RefreshTokenStatus(jwt, fp) ==
  IF jwt.sig = "none" THEN 401
  ELSE IF fp = NoFp THEN 400
  ELSE IF ~users[jwt.userId].exists THEN 404
  ELSE IF ~validateDeviceSession(users[jwt.userId], fp, jwt.sessionToken) THEN 401
  ELSE 200

\* the answer to a refresh carries a new JWT for the session token of the
\* presented one
RefreshToken(jwt, fp) ==
  LET st == RefreshTokenStatus(jwt, fp) IN
  /\ UNCHANGED <<users, issued>>
  /\ last' = IF st = 200
             THEN RespData("refresh-token", jwt.userId, st,
                           [token |-> generateJWT(jwt.userId, jwt.sessionToken)])
             ELSE Resp("refresh-token", jwt.userId, st)
  /\ UNCHANGED <<storeVars, procs>>

\* ------------------------------------------------------------ security.js
\* authenticateUser of security.js and secureMessaging.js (the two are the
\* same code): 0 stands for next().
SecureAuthStatus(jwt) ==
  IF jwt.sig # "ok" THEN 401
  ELSE IF ~users[jwt.userId].exists THEN 404
  ELSE IF isUserBlocked(users[jwt.userId]) THEN 403
  ELSE 0

requireAdminStatus(jwt) == IF ~users[jwt.userId].isAdmin THEN 403 ELSE 0

\* POST /api/security/violation
ViolationStatus(jwt, type, notifyOk) ==
  IF SecureAuthStatus(jwt) # 0 THEN SecureAuthStatus(jwt)
  ELSE IF type \notin validTypes THEN 400
  ELSE IF ~SaveValid(recordSecurityViolation(users[jwt.userId], type)) THEN 500
  ELSE IF ~notifyOk THEN 500
  ELSE 200

\* the violation is saved before the admins are notified
ViolationSaved(jwt, type) ==
  /\ SecureAuthStatus(jwt) = 0
  /\ type \in validTypes
  /\ SaveValid(recordSecurityViolation(users[jwt.userId], type))

\* variant: the record is kept only when the admins were notified
ReportViolationRollingBack(jwt, type, notifyOk) ==
  /\ ViolationSaved(jwt, type) =>
        Len(users[jwt.userId].securityProfile.securityViolations) < MaxLog
  /\ IF ViolationSaved(jwt, type) /\ notifyOk
     THEN users' = [users EXCEPT ![jwt.userId] = recordSecurityViolation(@, type)]
     ELSE UNCHANGED users
  /\ UNCHANGED issued
  /\ last' = Resp("violation", jwt.userId, ViolationStatus(jwt, type, notifyOk))
  /\ UNCHANGED <<storeVars, procs>>

\* the handler, for logs of up to maxLog events
ReportViolationUpTo(jwt, type, notifyOk, maxLog) ==
  /\ ViolationSaved(jwt, type) =>
        Len(users[jwt.userId].securityProfile.securityViolations) < maxLog
  /\ IF ViolationSaved(jwt, type)
     THEN users' = [users EXCEPT ![jwt.userId] = recordSecurityViolation(@, type)]
     ELSE UNCHANGED users
  /\ UNCHANGED issued
  /\ last' = Resp("violation", jwt.userId, ViolationStatus(jwt, type, notifyOk))
  /\ UNCHANGED <<storeVars, procs>>

ReportViolation(jwt, type, notifyOk) == ReportViolationUpTo(jwt, type, notifyOk, MaxLog)

\* POST /api/security/block-user
BlockUserStatus(jwt, userId) ==
  IF SecureAuthStatus(jwt) # 0 THEN SecureAuthStatus(jwt)
  ELSE IF requireAdminStatus(jwt) # 0 THEN requireAdminStatus(jwt)
  ELSE IF ~users[userId].exists THEN 404
  ELSE IF users[userId].isAdmin THEN 400
  ELSE 200

BlockUser(jwt, userId) ==
  LET st == BlockUserStatus(jwt, userId) IN
  /\ IF st = 200
     THEN users' = [users EXCEPT ![userId] =
                      revokeDeviceSession(
                        [@ EXCEPT !.securityProfile.isBlocked = TRUE,
                                  !.securityProfile.blockReason = AdminBlockReason,
                                  !.securityProfile.blockedAt = "date"])]
     ELSE UNCHANGED users
  /\ UNCHANGED issued
  /\ last' = Resp("block-user", jwt.userId, st)
  /\ UNCHANGED <<storeVars, procs>>

\* POST /api/security/unblock-user
UnblockUserStatus(jwt, userId) ==
  IF SecureAuthStatus(jwt) # 0 THEN SecureAuthStatus(jwt)
  ELSE IF requireAdminStatus(jwt) # 0 THEN requireAdminStatus(jwt)
  ELSE IF ~users[userId].exists THEN 404
  ELSE 200

UnblockUser(jwt, userId) ==
  LET st == UnblockUserStatus(jwt, userId) IN
  /\ IF st = 200
     THEN users' = [users EXCEPT ![userId] = unblockUser(@)]
     ELSE UNCHANGED users
  /\ UNCHANGED issued
  /\ last' = IF st = 200
             THEN RespData("unblock-user", jwt.userId, st, [user |-> userId])
             ELSE Resp("unblock-user", jwt.userId, st)
  /\ UNCHANGED <<storeVars, procs>>

\* ------------------------------------------------------------ chat.js
\* authenticateUser of chat.js: 0 stands for next().
ChatAuthStatus(jwt) ==
  IF jwt.sig # "ok" THEN 401
  ELSE IF ~users[jwt.userId].exists THEN 404
  ELSE 0

\* what a request body carries: text, only an imageUrl, neither, or a text of
\* more than 1000 characters
Bodies == {"text", "image", "empty", "long"}
NoTo   == "none"
Ghost  == "U9"          \* an id no User document has

Found(userId) == userId \in Users /\ users[userId].exists

\* Message.save(): the schema has no imageUrl path, so a message without text
\* has neither text nor attachments and fails the pre-validate hook.
MessageSaves(body, persistOk) == body = "text" /\ persistOk

\* variant: any two existing users may exchange direct messages
DirectAllowedAmongAll(sender, recipient) == sender.exists /\ recipient.exists

DirectAllowed(sender, recipient) == sender.isAdmin \/ recipient.isAdmin

\* POST /api/chat/send
ChatSendStatus(jwt, to, body, persistOk) ==
  IF ChatAuthStatus(jwt) # 0 THEN ChatAuthStatus(jwt)
  ELSE IF to = NoTo THEN 400
  ELSE IF body \in {"empty", "long"} THEN 400
  ELSE IF ~Found(to) THEN 404
  ELSE IF ~DirectAllowed(users[jwt.userId], users[to]) THEN 403
  ELSE IF ~MessageSaves(body, persistOk) THEN 500
  ELSE 201

chatPath(a, b) == {a, b}    \* [a, b].sort().join('_')
groupPath(groupId) == {groupId}

\* The steps after Message.save() each catch their own errors (pushToFirebase,
\* incrementDirectUnreadCount, sendMessageNotification): none of them throws
\* into the handler.
\* variant: a rejected publish reaches the handler's catch
\* the statements after await message.save() run when the save resolved; a
\* rejected save goes to the catch block of the handler
\* variant: they also run when the save rejected
AfterSaveOrFailure(st0) == st0 \in {201, 500}

\* variant: they also run for a sender the permission check refused
AfterSaveOrRefusal(st0) == st0 \in {201, 403}

AfterSave(st0) == st0 = 201

\* none of the steps after the save throws into the handler
\* variant: a failed publish does
PostPersistThrowsOnPublish(pubOk, incOk, notifyOk) == ~pubOk

PostPersistThrows(pubOk, incOk, notifyOk) == FALSE

\* SimpleNotificationService.sendMessageNotification: the gateway is called
\* when the recipient document holds an active token
sendMessageNotification(log, kind, id, recipient, doc, notifyOk) ==
  IF getActiveFcmTokens(doc)
  THEN log \cup {[kind |-> kind, id |-> id, to |-> recipient, ok |-> notifyOk]}
  ELSE log

ChatSend(jwt, to, body, persistOk, pubOk, incOk, notifyOk) ==
  LET st0  == ChatSendStatus(jwt, to, body, persistOk)
      st   == IF st0 = 201 /\ PostPersistThrows(pubOk, incOk, notifyOk) THEN 500 ELSE st0
      from == jwt.userId
      id   == Len(messages) + 1
  IN
  /\ st0 = 201 => Len(messages) + Len(groupMessages) < MaxMsgs
  /\ messages' = IF st0 = 201
                 THEN Append(messages, [from |-> from, to |-> to, text |-> body,
                                        readBy |-> <<>>])
                 ELSE messages
  /\ IF AfterSave(st0)
     THEN /\ chats' = IF pubOk
                      THEN chats \cup {[path |-> chatPath(from, to), id |-> id]}
                      ELSE chats
          /\ unread' = IF incOk
                       THEN [unread EXCEPT ![to] = incrementDirectUnreadCount(@, from)]
                       ELSE unread
          /\ pushed' = sendMessageNotification(pushed, "direct", id, to, users[to],
                                               notifyOk)
     ELSE UNCHANGED <<chats, unread, pushed>>
  /\ last' = IF st = 201
             THEN RespData("send", from, st, [id |-> id, path |-> chatPath(from, to)])
             ELSE Resp("send", from, st)
  /\ UNCHANGED <<authVars, groupMessages, groupChats, secureMessages, procs>>

\* POST /api/chat/groups/:groupId/send
ChatGroupSendStatus(jwt, groupId, body, persistOk) ==
  IF ChatAuthStatus(jwt) # 0 THEN ChatAuthStatus(jwt)
  ELSE IF body \in {"empty", "long"} THEN 400
  ELSE IF groupId \notin Groups THEN 404
  ELSE IF ~GroupDoc(groupId).isActive THEN 400
  ELSE IF ~MessageSaves(body, persistOk) THEN 500
  ELSE 201

\* variant: one member's failing call leaves every member's counter as it was
incrementGroupUnreadCountAllOrNothing(tree, groupId, fromUserId, memberIds, failing) ==
  [u \in Users |->
     IF u \in memberIds /\ u # fromUserId /\ (memberIds \ {fromUserId}) \cap failing = {}
     THEN incrementGroupMember(tree[u], groupId)
     ELSE tree[u]]

\* variant: the sender's counter is incremented with the others
incrementGroupUnreadCountOfAll(tree, groupId, fromUserId, memberIds, failing) ==
  [u \in Users |->
     IF u \in memberIds /\ u \notin failing
     THEN incrementGroupMember(tree[u], groupId)
     ELSE tree[u]]

\* incrementGroupUnreadCount: one read-add-write per member other than the
\* sender; failing holds the members whose Firebase calls reject.
incrementGroupUnreadCount(tree, groupId, fromUserId, memberIds, failing) ==
  [u \in Users |->
     IF u \in memberIds /\ u # fromUserId /\ u \notin failing
     THEN incrementGroupMember(tree[u], groupId)
     ELSE tree[u]]

\* SimpleNotificationService.sendGroupMessageNotification: one gateway call
\* per member other than the sender that holds an active token; the gateway
\* answers success: false for the members in notifyFailing
sendGroupMessageNotification(log, id, fromUserId, memberIds, notifyFailing) ==
  log \cup {[kind |-> "group", id |-> id, to |-> m, ok |-> m \notin notifyFailing] :
              m \in {x \in memberIds : x # fromUserId /\ getActiveFcmTokens(users[x])}}

ChatGroupSend(jwt, groupId, body, persistOk, pubOk, failing, notifyFailing) ==
  LET st0  == ChatGroupSendStatus(jwt, groupId, body, persistOk)
      st   == IF st0 = 201 /\ PostPersistThrows(pubOk, failing = {}, notifyFailing = {})
              THEN 500 ELSE st0
      from == jwt.userId
      id   == Len(groupMessages) + 1
  IN
  /\ st0 = 201 => Len(messages) + Len(groupMessages) < MaxMsgs
  /\ groupMessages' = IF st0 = 201
                      THEN Append(groupMessages, [group |-> groupId, from |-> from])
                      ELSE groupMessages
  /\ IF AfterSave(st0)
     THEN /\ groupChats' = IF pubOk
                           THEN groupChats \cup {[path |-> groupPath(groupId), id |-> id]}
                           ELSE groupChats
          /\ unread' = incrementGroupUnreadCount(unread, groupId, from,
                                                 GroupDoc(groupId).members, failing)
          /\ pushed' = sendGroupMessageNotification(pushed, id, from,
                          GroupDoc(groupId).members, notifyFailing)
     ELSE UNCHANGED <<groupChats, unread, pushed>>
  /\ last' = IF st = 201
             THEN RespData("group-send", from, st, [id |-> id, path |-> groupPath(groupId)])
             ELSE Resp("group-send", from, st)
  /\ UNCHANGED <<authVars, messages, chats, secureMessages, procs>>

\* Message.findConversation / GroupMessage query: the ids a query returns
findConversation(user1Id, user2Id) ==
  {i \in 1..Len(messages) :
      \/ messages[i].from = user1Id /\ messages[i].to = user2Id
      \/ messages[i].from = user2Id /\ messages[i].to = user1Id}
findByGroup(groupId) ==
  {i \in 1..Len(groupMessages) : groupMessages[i].group = groupId}

\* GET /api/chat/messages/:userId
ChatGetMessagesStatus(jwt, userId) ==
  IF ChatAuthStatus(jwt) # 0 THEN ChatAuthStatus(jwt)
  ELSE IF ~Found(userId) THEN 404
  ELSE IF ~DirectAllowed(users[jwt.userId], users[userId]) THEN 403
  ELSE 200

ChatGetMessages(jwt, userId) ==
  /\ last' = Resp("messages", jwt.userId, ChatGetMessagesStatus(jwt, userId))
  /\ UNCHANGED <<authVars, storeVars, procs>>

\* GET /api/chat/unread-counts
ChatUnreadCountsStatus(jwt) ==
  IF ChatAuthStatus(jwt) # 0 THEN ChatAuthStatus(jwt) ELSE 200

ChatUnreadCounts(jwt) ==
  /\ last' = Resp("unread-counts", jwt.userId, ChatUnreadCountsStatus(jwt))
  /\ UNCHANGED <<authVars, storeVars, procs>>

\* PUT /api/chat/messages/:userId/mark-read
ChatMarkReadStatus(jwt, otherUserId) ==
  IF ChatAuthStatus(jwt) # 0 THEN ChatAuthStatus(jwt)
  ELSE IF ~Found(otherUserId) THEN 404
  ELSE 200

\* readBy is an array of { user, readAt }: the users of its entries
ReadByUsers(message) == {message.readBy[j] : j \in 1..Len(message.readBy)}

\* variant: the entry is pushed whether or not the reader already has one
markAsReadAgain(coll, fromUserId, toUserId, readByUserId) ==
  [i \in 1..Len(coll) |->
     IF /\ coll[i].from = fromUserId
        /\ coll[i].to = toUserId
     THEN [coll[i] EXCEPT !.readBy = Append(@, readByUserId)]
     ELSE coll[i]]

\* Message.markAsRead(fromUserId, toUserId, readByUserId): updateMany with
\* the filter 'readBy.user': { $ne: readByUserId } and a $push
markAsRead(coll, fromUserId, toUserId, readByUserId) ==
  [i \in 1..Len(coll) |->
     IF /\ coll[i].from = fromUserId
        /\ coll[i].to = toUserId
        /\ readByUserId \notin ReadByUsers(coll[i])
     THEN [coll[i] EXCEPT !.readBy = Append(@, readByUserId)]
     ELSE coll[i]]

ChatMarkRead(jwt, otherUserId, clearOk) ==
  LET st == ChatMarkReadStatus(jwt, otherUserId)
      me == jwt.userId
  IN
  /\ IF st = 200
     THEN /\ messages' = markAsRead(messages, otherUserId, me, me)
          /\ unread' = IF clearOk
                       THEN [unread EXCEPT ![me] = clearDirectUnreadCount(@, otherUserId)]
                       ELSE unread
     ELSE UNCHANGED <<messages, unread>>
  /\ last' = Resp("mark-read", me, st)
  /\ UNCHANGED <<authVars, groupMessages, chats, groupChats, pushed, secureMessages, procs>>

\* ------------------------------------------------------------ specification
\* violation types a client reports in the bounded runs

Init ==
  /\ users = [u \in Users |->
                IF u \in Admins THEN [NewUser(TRUE) EXCEPT !.exists = TRUE]
                ELSE NewUser(FALSE)]
  /\ issued = <<>>
  /\ last = Resp("none", "none", 0)
  /\ messages = <<>> /\ groupMessages = <<>>
  /\ chats = {} /\ groupChats = {}
  /\ unread = [u \in Users |-> NoCounts]
  /\ pushed = {}
  /\ secureMessages = <<>>
  /\ procs = <<>>

FpInputs == Fingerprints \cup {NoFp}
\* an expired JWT is refused before its payload is used: one per client
Requests == {j \in Presentable : /\ j.userId \in Clients
                                 /\ \/ j.sig = "ok"
                                    \/ j.sig = "expired" /\ j.sessionToken <= 1}

OkRequests == {j \in Requests : j.sig = "ok"}
\* a report of a type the schema stores, of one it does not, of an unknown
\* type, and a stored report whose admin notification fails
ReportInputs == {<<"screenshot_attempt", TRUE>>, <<"screenshot_attempt", FALSE>>,
                 <<"forward_attempt", TRUE>>, <<"bogus_type", TRUE>>}

\* a request with an expired JWT is tried once per route; the block routes are
\* called for the regular client
Next ==
  \/ \E u \in Clients \cap Regulars, fp \in FpInputs : Register(u, fp)
  \/ \E u \in Clients \cap Regulars, fp \in FpInputs, uidOk \in BOOLEAN :
        Login(u, fp, uidOk)
  \/ \E jwt \in Requests : Logout(jwt)
  \/ \E jwt \in Requests, fp \in FpInputs :
        (jwt.sig = "ok" \/ fp = "F1") /\ ValidateSession(jwt, fp)
  \/ \E jwt \in Requests, fp \in FpInputs :
        (jwt.sig = "ok" \/ fp = "F1") /\ RefreshToken(jwt, fp)
  \/ \E jwt \in Requests, in \in ReportInputs :
        (jwt.sig = "ok" \/ in[1] = "bogus_type") /\ ReportViolation(jwt, in[1], in[2])
  \/ \E jwt \in OkRequests, userId \in RegularClients : BlockUser(jwt, userId)
  \/ \E jwt \in OkRequests, userId \in RegularClients : UnblockUser(jwt, userId)

Spec == Init /\ [][Next]_vars

\* ---- messaging: the three users are registered, each from its own device
RegisteredFrom(fp, tok) == createDeviceSession([NewUser(FALSE) EXCEPT !.exists = TRUE], fp, tok)

InitSend ==
  /\ users = [u \in Users |->
                IF u \in Admins THEN [NewUser(TRUE) EXCEPT !.exists = TRUE]
                ELSE IF u = "U1" THEN RegisteredFrom("F1", 1)
                ELSE RegisteredFrom("F1", 2)]
  /\ issued = <<"U1", "U2">>
  /\ last = Resp("none", "none", 0)
  /\ messages = <<>> /\ groupMessages = <<>>
  /\ chats = {} /\ groupChats = {}
  /\ unread = [u \in Users |-> NoCounts]
  /\ pushed = {}
  /\ secureMessages = <<>>
  /\ procs = <<>>

SendRequests == {j \in Requests : j.sig = "ok"}
ToInputs     == Users \cup {Ghost}
\* request bodies with the outcome of the store's write: a text that is
\* stored, a text the store fails to write, an imageUrl alone, nothing
SendInputs   == {<<"text", TRUE>>, <<"text", FALSE>>, <<"image", TRUE>>, <<"empty", TRUE>>}

\* the direct sends tried: every recipient with a text that is stored and one
\* the store fails to write, an imageUrl alone and an empty body to A1, and a
\* request without recipient (the body checks come before the lookups, so the
\* other combinations answer alike)
SendCases ==
  {<<to, in[1], in[2]>> : to \in ToInputs, in \in {<<"text", TRUE>>, <<"text", FALSE>>}}
    \cup {<<"A1", "image", TRUE>>, <<"A1", "empty", TRUE>>, <<NoTo, "text", TRUE>>}
GroupSendCases ==
  {<<g, in[1], in[2]>> : g \in Groups \cup {NoGroup},
                         in \in {<<"text", TRUE>>, <<"text", FALSE>>}}
    \cup {<<"G1", "image", TRUE>>, <<"G1", "empty", TRUE>>}

\* every Firebase call succeeds in these runs; the block routes are called for
\* the regular client
NextSend ==
  \/ \E jwt \in SendRequests, userId \in RegularClients : BlockUser(jwt, userId)
  \/ \E jwt \in SendRequests, userId \in RegularClients : UnblockUser(jwt, userId)
  \/ \E jwt \in SendRequests, c \in SendCases :
        ChatSend(jwt, c[1], c[2], c[3], TRUE, TRUE, TRUE)
  \/ \E jwt \in SendRequests, c \in GroupSendCases :
        ChatGroupSend(jwt, c[1], c[2], c[3], TRUE, {}, {})
  \/ \E jwt \in SendRequests, userId \in ToInputs : ChatGetMessages(jwt, userId)
  \/ \E jwt \in SendRequests : ChatUnreadCounts(jwt)
  \/ \E jwt \in SendRequests, otherUserId \in ToInputs : ChatMarkRead(jwt, otherUserId, TRUE)

SpecSend == InitSend /\ [][NextSend]_vars

\* ---- routes/users.js: soft delete and restore, admin only
\* requireAdmin of users.js: the token is verified and the document looked up
UsersAdminStatus(jwt) ==
  IF jwt.sig # "ok" THEN 401
  ELSE IF ~users[jwt.userId].exists THEN 404
  ELSE IF ~users[jwt.userId].isAdmin THEN 403
  ELSE 0

\* DELETE /api/users/:id. The handler assigns user.isDeleted = true and saves;
\* isDeleted marks the users this route has reported as soft-deleted.
DeleteUserStatus(jwt, id) ==
  IF UsersAdminStatus(jwt) # 0 THEN UsersAdminStatus(jwt)
  ELSE IF ~Found(id) THEN 404
  ELSE IF users[id].isAdmin /\ Cardinality({u \in Users : users[u].isAdmin}) <= 1 THEN 400
  ELSE 200

DeleteUser(jwt, id) ==
  LET st == DeleteUserStatus(jwt, id) IN
  /\ users' = IF st = 200 THEN [users EXCEPT ![id].isDeleted = TRUE] ELSE users
  /\ last' = Resp("delete-user", jwt.userId, st)
  /\ UNCHANGED <<issued, storeVars, procs>>

\* POST /api/users/:id/restore
RestoreUserStatus(jwt, id) ==
  IF UsersAdminStatus(jwt) # 0 THEN UsersAdminStatus(jwt)
  ELSE IF ~Found(id) THEN 404
  ELSE 200

RestoreUser(jwt, id) ==
  LET st == RestoreUserStatus(jwt, id) IN
  /\ users' = IF st = 200 THEN [users EXCEPT ![id].isDeleted = FALSE] ELSE users
  /\ last' = Resp("restore-user", jwt.userId, st)
  /\ UNCHANGED <<issued, storeVars, procs>>

\* ---- routes/secureMessaging.js
\* authenticateUser of secureMessaging.js, then requireAdmin
SecureMessagingAuthStatus(jwt) ==
  IF jwt.sig # "ok" THEN 401
  ELSE IF ~users[jwt.userId].exists THEN 404
  ELSE IF isUserBlocked(users[jwt.userId]) THEN 403
  ELSE IF ~users[jwt.userId].isAdmin THEN 403
  ELSE 0

\* POST /api/secure-messaging/send
SecureSendStatus(jwt, to, body, persistOk) ==
  IF SecureMessagingAuthStatus(jwt) # 0 THEN SecureMessagingAuthStatus(jwt)
  ELSE IF to = NoTo \/ body \in {"empty", "image"} THEN 400
  ELSE IF body = "long" THEN 400
  ELSE IF ~Found(to) THEN 404
  ELSE IF users[to].isAdmin THEN 400
  ELSE IF ~persistOk THEN 500
  ELSE 201

\* The stored document is published under chats/<a_b>; SecureMessage ids are
\* kept apart from Message ids as negative numbers. The notification service
\* reads message.text, a path a SecureMessage does not have: it returns
\* success: false before any store or gateway call. The document is then
\* marked delivered.
SecureSend(jwt, to, body, persistOk, pubOk) ==
  LET st   == SecureSendStatus(jwt, to, body, persistOk)
      from == jwt.userId
      id   == 0 - (Len(secureMessages) + 1)
  IN
  /\ st = 201 => Len(messages) + Len(secureMessages) < MaxMsgs
  /\ IF st = 201
     THEN /\ secureMessages' = Append(secureMessages,
                                      [from |-> from, to |-> to, status |-> "delivered"])
          /\ chats' = IF pubOk
                      THEN chats \cup {[path |-> chatPath(from, to), id |-> id]}
                      ELSE chats
     ELSE UNCHANGED <<secureMessages, chats>>
  /\ last' = IF st = 201
             THEN RespData("secure-send", from, st, [id |-> id, path |-> chatPath(from, to)])
             ELSE Resp("secure-send", from, st)
  /\ UNCHANGED <<authVars, messages, groupMessages, groupChats, unread, pushed, procs>>

\* ---- administration: two admin accounts (A1 and U2) and one regular user;
\* every send names an existing recipient and carries a text the store accepts
InitAdmin ==
  /\ users = [u \in Users |->
                IF u = "U1" THEN RegisteredFrom("F1", 1)
                ELSE [NewUser(TRUE) EXCEPT !.exists = TRUE]]
  /\ issued = <<"U1">>
  /\ last = Resp("none", "none", 0)
  /\ messages = <<>> /\ groupMessages = <<>>
  /\ chats = {} /\ groupChats = {}
  /\ unread = [u \in Users |-> NoCounts]
  /\ pushed = {} /\ secureMessages = <<>>
  /\ procs = <<>>

NextAdmin ==
  \/ \E jwt \in SendRequests, to \in Users : ChatSend(jwt, to, "text", TRUE, TRUE, TRUE, TRUE)
  \/ \E jwt \in SendRequests, to \in Users, pubOk \in BOOLEAN :
        SecureSend(jwt, to, "text", TRUE, pubOk)
  \/ \E jwt \in SendRequests, id \in Users : DeleteUser(jwt, id)
  \/ \E jwt \in SendRequests, id \in Users : RestoreUser(jwt, id)

SpecAdmin == InitAdmin /\ [][NextAdmin]_vars

\* ---- rejected requests: sends to allowed, forbidden and unknown recipients
\* and groups and session checks from both devices, while sessions are
\* revoked by logout and the regular client is blocked by the admin
RejectSendCases  == {"A1", "U2", Ghost}
RejectGroupCases == {"G1", "G2", NoGroup}

NextReject ==
  \/ \E jwt \in SendRequests, userId \in RegularClients : BlockUser(jwt, userId)
  \/ \E jwt \in SendRequests : Logout(jwt)
  \/ \E jwt \in SendRequests, to \in RejectSendCases :
        ChatSend(jwt, to, "text", TRUE, TRUE, TRUE, TRUE)
  \/ \E jwt \in SendRequests, groupId \in RejectGroupCases :
        ChatGroupSend(jwt, groupId, "text", TRUE, TRUE, {}, {})
  \/ \E jwt \in SendRequests, to \in RejectSendCases :
        SecureSend(jwt, to, "text", TRUE, TRUE)
  \/ \E jwt \in SendRequests, fp \in FpInputs : ValidateSession(jwt, fp)
  \/ \E jwt \in SendRequests, fp \in FpInputs : RefreshToken(jwt, fp)

SpecReject == InitSend /\ [][NextReject]_vars

\* ---- blocks and unblocks of the regular client: its reports, with and
\* without the admins notified, and the admin's block and unblock requests
NextReblock ==
  \/ \E jwt \in SendRequests, in \in ReportInputs :
        jwt.userId \in RegularClients /\ ReportViolationUpTo(jwt, in[1], in[2], MaxRelog)
  \/ \E jwt \in SendRequests, userId \in RegularClients : BlockUser(jwt, userId)
  \/ \E jwt \in SendRequests, userId \in RegularClients : UnblockUser(jwt, userId)

SpecReblock == InitSend /\ [][NextReblock]_vars

\* ---- group traffic: text messages to users and groups, every Firebase call
\* succeeding, and conversations marked read
NextGroup ==
  \/ \E jwt \in SendRequests, groupId \in Groups \cup {NoGroup} :
        ChatGroupSend(jwt, groupId, "text", TRUE, TRUE, {}, {})
  \/ \E jwt \in SendRequests, to \in Users :
        ChatSend(jwt, to, "text", TRUE, TRUE, TRUE, TRUE)
  \/ \E jwt \in SendRequests, otherUserId \in Users : ChatMarkRead(jwt, otherUserId, TRUE)

SpecGroup == InitSend /\ [][NextGroup]_vars

\* ---- delivery: the steps after the save may fail, users may hold FCM tokens
\* user.addFcmToken(token) on an existing document, as /fcm/register and the
\* scripts call it: the document now holds an active token. The route looks
\* the document up by req.user.id; the lookup is not modelled.
AddFcmToken(u) ==
  /\ users[u].exists
  /\ users' = [users EXCEPT ![u] = addFcmToken(@)]
  /\ last' = Resp("fcm-register", u, 200)
  /\ UNCHANGED <<issued, storeVars, procs>>

\* the group these runs send to: active, with every user a member
DeliverGroups == {"G1"}

\* what fails after the save of a direct send: <<pubOk, incOk, notifyOk>>
DirectFaults == {<<TRUE, TRUE, TRUE>>, <<FALSE, TRUE, TRUE>>, <<TRUE, FALSE, TRUE>>,
                 <<TRUE, TRUE, FALSE>>, <<FALSE, FALSE, FALSE>>}
\* what fails after the save of a group send: the publish succeeds or not, the
\* members whose counter increment fails, the members whose gateway call fails
GroupFaults == {<<TRUE, {}, {}>>, <<FALSE, {}, {}>>, <<TRUE, {"U1"}, {}>>,
                <<TRUE, {}, {"U1"}>>, <<FALSE, {"U2"}, {"U2"}>>}

\* devices register their tokens before the first message of a run
NextDeliver ==
  \/ \E u \in Users : messages = <<>> /\ groupMessages = <<>> /\ AddFcmToken(u)
  \/ \E jwt \in SendRequests, to \in Clients, f \in DirectFaults :
        ChatSend(jwt, to, "text", TRUE, f[1], f[2], f[3])
  \/ \E jwt \in SendRequests, to \in Clients :
        ChatSend(jwt, to, "text", FALSE, TRUE, TRUE, TRUE)
  \/ \E jwt \in SendRequests, groupId \in DeliverGroups, f \in GroupFaults :
        ChatGroupSend(jwt, groupId, "text", TRUE, f[1], f[2], f[3])
  \/ \E jwt \in SendRequests, groupId \in DeliverGroups :
        ChatGroupSend(jwt, groupId, "text", FALSE, TRUE, {}, {})

SpecDeliver == InitSend /\ [][NextDeliver]_vars

\* ------------------------------------------------------------ concurrency
\* Requests run interleaved: a handler gives way at every await.  Each request
\* works on the document its find loaded; save() sends only what the request
\* changed on its own copy: $set for an assigned path, $push for a pushed
\* array element.
Slots    == {"r1", "r2"}
ConcUser == "U1"
IdleProc == [op |-> "idle", pc |-> "idle", doc |-> NewUser(FALSE), arg |-> NoFp]
Proc(op, pc, doc, arg) == [op |-> op, pc |-> pc, doc |-> doc, arg |-> arg]

\* save() after revokeDeviceSession: $set activeSession.isActive
saveIsActive(db, before, after) ==
  IF after.activeSession.isActive # before.activeSession.isActive
  THEN [db EXCEPT !.activeSession.isActive = after.activeSession.isActive]
  ELSE db

\* save() after createDeviceSession: $set activeSession
saveActiveSession(db, after) == [db EXCEPT !.activeSession = after.activeSession]

\* save() after recordSecurityViolation: $push of the new event, $set of the
\* counter that moved, and $set of the block fields when this request's copy
\* reached the threshold.
saveViolation(db, before, after, type) ==
  LET b == before.securityProfile
      a == after.securityProfile
  IN [db EXCEPT
        !.securityProfile.securityViolations = Append(@, type),
        !.securityProfile.screenshotAttempts =
            IF a.screenshotAttempts # b.screenshotAttempts THEN a.screenshotAttempts ELSE @,
        !.securityProfile.copyAttempts =
            IF a.copyAttempts # b.copyAttempts THEN a.copyAttempts ELSE @,
        !.securityProfile.isBlocked =
            IF a.isBlocked # b.isBlocked THEN a.isBlocked ELSE @,
        !.securityProfile.blockReason =
            IF a.blockReason # b.blockReason THEN a.blockReason ELSE @,
        !.securityProfile.blockedAt =
            IF Len(a.securityViolations) >= BlockThreshold THEN a.blockedAt ELSE @]

Respond(s, op, status) ==
  /\ procs' = [procs EXCEPT ![s] = IdleProc]
  /\ last' = Resp(op, ConcUser, status)

Goto(s, op, pc, doc, arg) ==
  /\ procs' = [procs EXCEPT ![s] = Proc(op, pc, doc, arg)]
  /\ UNCHANGED last

\* register, lines 60-67: the lookup
ConcRegisterFind(s, fp) ==
  /\ procs[s] = IdleProc
  /\ IF users[ConcUser].exists
     THEN Respond(s, "register", 400)
     ELSE Goto(s, "register", "insert", [NewUser(FALSE) EXCEPT !.exists = TRUE], fp)
  /\ UNCHANGED <<users, issued, storeVars>>

\* register, lines 70-83: the insert; the phone number is unique
ConcRegisterInsert(s) ==
  /\ procs[s].op = "register" /\ procs[s].pc = "insert"
  /\ IF users[ConcUser].exists
     THEN /\ Respond(s, "register", 500)
          /\ UNCHANGED <<users, issued>>
     ELSE /\ Len(issued) < TokenLimit
          /\ users' = [users EXCEPT ![ConcUser] =
                 createDeviceSession(procs[s].doc, procs[s].arg, generateSessionToken)]
          /\ issued' = Append(issued, ConcUser)
          /\ Respond(s, "register", 201)
  /\ UNCHANGED storeVars

\* login, lines 125-146: the lookup and the checks on the loaded document
ConcLoginFind(s, fp) ==
  /\ procs[s] = IdleProc
  /\ IF LoginStatus(ConcUser, fp, TRUE) # 200
     THEN Respond(s, "login", LoginStatus(ConcUser, fp, TRUE))
     ELSE Goto(s, "login",
               IF LoginDetectsOtherDevice(users[ConcUser], fp) THEN "revoke" ELSE "create",
               users[ConcUser], fp)
  /\ UNCHANGED <<users, issued, storeVars>>

\* login, line 148
ConcLoginRevoke(s) ==
  /\ procs[s].op = "login" /\ procs[s].pc = "revoke"
  /\ users' = [users EXCEPT ![ConcUser] =
                 saveIsActive(@, procs[s].doc, revokeDeviceSession(procs[s].doc))]
  /\ Goto(s, "login", "record", revokeDeviceSession(procs[s].doc), procs[s].arg)
  /\ UNCHANGED <<issued, storeVars>>

\* login, line 151
ConcLoginRecord(s) ==
  /\ procs[s].op = "login" /\ procs[s].pc = "record"
  /\ Len(Log(ConcUser)) < MaxLog
  /\ LET after == recordSecurityViolation(procs[s].doc, "multiple_login_attempt") IN
     /\ users' = [users EXCEPT ![ConcUser] =
                    saveViolation(@, procs[s].doc, after, "multiple_login_attempt")]
     /\ Goto(s, "login", "create", after, procs[s].arg)
  /\ UNCHANGED <<issued, storeVars>>

\* login, lines 156-181
ConcLoginCreate(s) ==
  /\ procs[s].op = "login" /\ procs[s].pc = "create"
  /\ Len(issued) < TokenLimit
  /\ users' = [users EXCEPT ![ConcUser] =
        saveActiveSession(@, createDeviceSession(procs[s].doc, procs[s].arg,
                                                 generateSessionToken))]
  /\ issued' = Append(issued, ConcUser)
  /\ Respond(s, "login", 200)
  /\ UNCHANGED storeVars

\* logout, lines 196-208
ConcLogoutFind(s, jwt) ==
  /\ procs[s] = IdleProc
  /\ IF LogoutStatus(jwt) # 200
     THEN Respond(s, "logout", LogoutStatus(jwt))
     ELSE Goto(s, "logout", "revoke", users[ConcUser], NoFp)
  /\ UNCHANGED <<users, issued, storeVars>>

\* logout, lines 211-219
ConcLogoutRevoke(s) ==
  /\ procs[s].op = "logout" /\ procs[s].pc = "revoke"
  /\ users' = [users EXCEPT ![ConcUser] =
                 saveIsActive(@, procs[s].doc, revokeDeviceSession(procs[s].doc))]
  /\ Respond(s, "logout", 200)
  /\ UNCHANGED <<issued, storeVars>>

\* validate-session reads the document once
ConcValidate(jwt, fp) ==
  /\ last' = Resp("validate-session", jwt.userId, ValidateSessionStatus(jwt, fp))
  /\ UNCHANGED <<users, issued, storeVars, procs>>

\* violation report, security.js lines 10-41 and 56-73: authentication loads
\* the document the handler will record on
ConcViolationAuth(s, jwt, type) ==
  /\ procs[s] = IdleProc
  /\ IF ViolationSaved(jwt, type)
     THEN Goto(s, "violation", "record", users[ConcUser], type)
     ELSE Respond(s, "violation", ViolationStatus(jwt, type, TRUE))
  /\ UNCHANGED <<users, issued, storeVars>>

\* violation report, security.js lines 76-113
ConcViolationRecord(s) ==
  /\ procs[s].op = "violation" /\ procs[s].pc = "record"
  /\ Len(Log(ConcUser)) < MaxLog
  /\ users' = [users EXCEPT ![ConcUser] =
        saveViolation(@, procs[s].doc,
                      recordSecurityViolation(procs[s].doc, procs[s].arg), procs[s].arg)]
  /\ Respond(s, "violation", 200)
  /\ UNCHANGED <<issued, storeVars>>

InitConc ==
  /\ users = [u \in Users |->
                IF u \in Admins THEN [NewUser(TRUE) EXCEPT !.exists = TRUE]
                ELSE NewUser(FALSE)]
  /\ issued = <<>>
  /\ last = Resp("none", "none", 0)
  /\ messages = <<>> /\ groupMessages = <<>>
  /\ chats = {} /\ groupChats = {}
  /\ unread = [u \in Users |-> NoCounts]
  /\ pushed = {}
  /\ secureMessages = <<>>
  /\ procs = [s \in Slots |-> IdleProc]

ConcRequests == {OkJwt(ConcUser, n) : n \in HeldBy(ConcUser)}

NextConc ==
  \/ \E s \in Slots, fp \in Fingerprints : ConcRegisterFind(s, fp)
  \/ \E s \in Slots : ConcRegisterInsert(s)
  \/ \E s \in Slots, fp \in Fingerprints : ConcLoginFind(s, fp)
  \/ \E s \in Slots : ConcLoginRevoke(s)
  \/ \E s \in Slots : ConcLoginRecord(s)
  \/ \E s \in Slots : ConcLoginCreate(s)
  \/ \E s \in Slots, jwt \in ConcRequests : ConcLogoutFind(s, jwt)
  \/ \E s \in Slots : ConcLogoutRevoke(s)
  \/ \E jwt \in ConcRequests, fp \in Fingerprints : ConcValidate(jwt, fp)
  \/ \E s \in Slots, jwt \in ConcRequests : ConcViolationAuth(s, jwt, "screenshot_attempt")
  \/ \E s \in Slots : ConcViolationRecord(s)

SpecConc == InitConc /\ [][NextConc]_vars

\* ---- deleting users: DELETE /:id in its two versions and POST /bulk, whose
\* counts and deleteMany are separate awaits that interleave across requests
\* DELETE /:id with findByIdAndDelete: the document is removed
RemoveUser(jwt, id) ==
  LET st == DeleteUserStatus(jwt, id) IN
  /\ users' = IF st = 200 THEN [users EXCEPT ![id] = NewUser(FALSE)] ELSE users
  /\ last' = Resp("remove-user", jwt.userId, st)
  /\ UNCHANGED <<issued, storeVars, procs>>

\* POST /bulk { action: 'delete', userIds }: requireAdmin, then the two counts
BulkDeleteStatus(jwt, userIds) ==
  LET adminsToDelete == Cardinality({u \in userIds \cap Users : users[u].isAdmin})
      totalAdmins    == Cardinality({u \in Users : users[u].isAdmin})
  IN
  IF UsersAdminStatus(jwt) # 0 THEN UsersAdminStatus(jwt)
  ELSE IF adminsToDelete >= totalAdmins THEN 400
  ELSE 200

IdleBulk == [pc |-> "idle", user |-> "none", userIds |-> {}]

\* the handler up to the comparison of the two counts
BulkCount(s, jwt, userIds) ==
  /\ procs[s].pc = "idle"
  /\ IF BulkDeleteStatus(jwt, userIds) = 200
     THEN /\ procs' = [procs EXCEPT ![s] = [pc |-> "deleteMany", user |-> jwt.userId,
                                             userIds |-> userIds]]
          /\ UNCHANGED last
     ELSE /\ last' = Resp("bulk", jwt.userId, BulkDeleteStatus(jwt, userIds))
          /\ UNCHANGED procs
  /\ UNCHANGED <<users, issued, storeVars>>

\* User.deleteMany and the response
BulkDeleteMany(s) ==
  /\ procs[s].pc = "deleteMany"
  /\ users' = [u \in Users |-> IF u \in procs[s].userIds THEN NewUser(FALSE) ELSE users[u]]
  /\ last' = Resp("bulk", procs[s].user, 200)
  /\ procs' = [procs EXCEPT ![s] = IdleBulk]
  /\ UNCHANGED <<issued, storeVars>>

\* two admin accounts (A1 and U2) and one regular user, no request in progress
InitDelete ==
  /\ users = [u \in Users |->
                IF u = "U1" THEN RegisteredFrom("F1", 1)
                ELSE [NewUser(TRUE) EXCEPT !.exists = TRUE]]
  /\ issued = <<"U1">>
  /\ last = Resp("none", "none", 0)
  /\ messages = <<>> /\ groupMessages = <<>>
  /\ chats = {} /\ groupChats = {}
  /\ unread = [u \in Users |-> NoCounts]
  /\ pushed = {} /\ secureMessages = <<>>
  /\ procs = [s \in Slots |-> IdleBulk]

BulkInputs == (SUBSET Users) \ {{}}

NextDelete ==
  \/ \E jwt \in SendRequests, id \in Users : DeleteUser(jwt, id)
  \/ \E jwt \in SendRequests, id \in Users : RemoveUser(jwt, id)
  \/ \E s \in Slots, jwt \in SendRequests, userIds \in BulkInputs : BulkCount(s, jwt, userIds)
  \/ \E s \in Slots : BulkDeleteMany(s)

SpecDelete == InitDelete /\ [][NextDelete]_vars

\* ------------------------------------------------------------ counter steps
\* firebaseUnreadService.js: every await is a step.  The calls on the unread
\* counters of one recipient interleave; an error thrown by a database call is
\* caught inside the service and ends the call.
CounterUser == "A1"
CounterKeys == {<<"direct", "U1">>, <<"groups", "G1">>}
IdleCall == [op |-> "idle", pc |-> "idle", branch |-> "direct", key |-> "none", read |-> 0]
Call(op, pc, k, read) ==
  [op |-> op, pc |-> pc, branch |-> k[1], key |-> k[2], read |-> read]
KeyOf(c) == <<c.branch, c.key>>

\* incrementDirectUnreadCount / incrementGroupUnreadCount (per member): called
IncrementCall(s, k) ==
  /\ procs[s] = IdleCall
  /\ procs' = [procs EXCEPT ![s] = Call("increment", "read", k, 0)]
  /\ UNCHANGED <<authVars, last, storeVars>>

\* lines 63-64 / 93-94: snapshot.val() || 0
IncrementRead(s) ==
  /\ procs[s].op = "increment" /\ procs[s].pc = "read"
  /\ procs' = [procs EXCEPT ![s] = Call("increment", "set", KeyOf(@),
                   refVal(unread[CounterUser], @.branch, @.key))]
  /\ UNCHANGED <<authVars, last, storeVars>>

\* lines 66 / 96: ref.set(currentCount + 1)
IncrementSet(s) ==
  /\ procs[s].op = "increment" /\ procs[s].pc = "set"
  /\ procs[s].read < MaxCount
  /\ unread' = [unread EXCEPT ![CounterUser] =
                  refSet(@, procs[s].branch, procs[s].key, procs[s].read + 1)]
  /\ procs' = [procs EXCEPT ![s] = Call("increment", "total", KeyOf(@), 0)]
  /\ UNCHANGED <<authVars, last, messages, groupMessages, chats, groupChats, pushed,
               secureMessages>>

\* clearDirectUnreadCount / clearGroupUnreadCount: called
ClearCall(s, k) ==
  /\ procs[s] = IdleCall
  /\ procs' = [procs EXCEPT ![s] = Call("clear", "remove", k, 0)]
  /\ UNCHANGED <<authVars, last, storeVars>>

\* lines 121 / 144: ref.remove()
ClearRemove(s) ==
  /\ procs[s].op = "clear" /\ procs[s].pc = "remove"
  /\ unread' = [unread EXCEPT ![CounterUser] =
                  refRemove(@, procs[s].branch, procs[s].key)]
  /\ procs' = [procs EXCEPT ![s] = Call("clear", "total", KeyOf(@), 0)]
  /\ UNCHANGED <<authVars, last, messages, groupMessages, chats, groupChats, pushed,
               secureMessages>>

\* updateTotalUnreadCount, line 238: getUserUnreadCounts reads the node; when
\* the read fails it answers a total of 0 (lines 181-184)
TotalRead(s, readOk) ==
  /\ procs[s].pc = "total"
  /\ procs' = [procs EXCEPT ![s] = Call(@.op, "total-set", KeyOf(@),
                   IF readOk THEN getUserUnreadCounts(unread[CounterUser]).total ELSE 0)]
  /\ UNCHANGED <<authVars, last, storeVars>>

\* updateTotalUnreadCount, lines 239-240: ref.set(counts.total); the call
\* returns and leaves the slot as `rest`
TotalSetTo(s, rest) ==
  /\ procs[s].pc = "total-set"
  /\ unread' = [unread EXCEPT ![CounterUser].total = <<procs[s].read>>]
  /\ procs' = [procs EXCEPT ![s] = rest]
  /\ UNCHANGED <<authVars, last, messages, groupMessages, chats, groupChats, pushed,
               secureMessages>>

TotalSet(s) == TotalSetTo(s, IdleCall)

\* a database call rejects: the catch blocks log the error and the call ends
CallFailsTo(s, rest) ==
  /\ procs[s].pc \notin {"idle", "done"}
  /\ procs' = [procs EXCEPT ![s] = rest]
  /\ UNCHANGED <<authVars, last, storeVars>>

CallFails(s) == CallFailsTo(s, IdleCall)

InitCounter ==
  /\ users = [u \in Users |-> IF u \in Admins
                              THEN [NewUser(TRUE) EXCEPT !.exists = TRUE]
                              ELSE RegisteredFrom("F1", IF u = "U1" THEN 1 ELSE 2)]
  /\ issued = <<"U1", "U2">>
  /\ last = Resp("none", "none", 0)
  /\ messages = <<>> /\ groupMessages = <<>>
  /\ chats = {} /\ groupChats = {}
  /\ unread = [u \in Users |-> NoCounts]
  /\ pushed = {}
  /\ secureMessages = <<>>
  /\ procs = [s \in Slots |-> IdleCall]

NextCounter ==
  \/ \E s \in Slots, k \in CounterKeys : IncrementCall(s, k)
  \/ \E s \in Slots : IncrementRead(s)
  \/ \E s \in Slots : IncrementSet(s)
  \/ \E s \in Slots, k \in CounterKeys : ClearCall(s, k)
  \/ \E s \in Slots : ClearRemove(s)
  \/ \E s \in Slots, readOk \in BOOLEAN : TotalRead(s, readOk)
  \/ \E s \in Slots : TotalSet(s)
  \/ \E s \in Slots : CallFails(s)

SpecCounter == InitCounter /\ [][NextCounter]_vars

\* ---- the same calls when every database call succeeds and the calls in
\* flight together are on different sources: one slot serves the messages of
\* U1, the other those of group G1
SourceOf(s) == IF s = "r1" THEN <<"direct", "U1">> ELSE <<"groups", "G1">>

NextTotal ==
  \/ \E s \in Slots : IncrementCall(s, SourceOf(s))
  \/ \E s \in Slots : IncrementRead(s)
  \/ \E s \in Slots : IncrementSet(s)
  \/ \E s \in Slots : ClearCall(s, SourceOf(s))
  \/ \E s \in Slots : ClearRemove(s)
  \/ \E s \in Slots : TotalRead(s, TRUE)
  \/ \E s \in Slots : TotalSet(s)

SpecTotal == InitCounter /\ [][NextTotal]_vars

\* ---- k concurrent increments: every call is made once and stays visible as
\* returned; the direct counter starts absent, the group counter holds 1
IncrCalls == {"i1", "i2", "i3"}
Returned(s) == Call(procs[s].op, "done", KeyOf(procs[s]), 0)
StartValue(k) == IF k[1] = "direct" THEN 0 ELSE 1

InitIncr ==
  /\ users = [u \in Users |-> IF u \in Admins
                              THEN [NewUser(TRUE) EXCEPT !.exists = TRUE]
                              ELSE RegisteredFrom("F1", IF u = "U1" THEN 1 ELSE 2)]
  /\ issued = <<"U1", "U2">>
  /\ last = Resp("none", "none", 0)
  /\ messages = <<>> /\ groupMessages = <<>>
  /\ chats = {} /\ groupChats = {}
  /\ unread = [u \in Users |->
                 IF u = CounterUser
                 THEN updateTotalUnreadCount([NoCounts EXCEPT !.groups = SetChild(@, "G1", 1)])
                 ELSE NoCounts]
  /\ pushed = {}
  /\ secureMessages = <<>>
  /\ procs = [s \in IncrCalls |-> IdleCall]

NextIncr ==
  \/ \E s \in IncrCalls, k \in CounterKeys : IncrementCall(s, k)
  \/ \E s \in IncrCalls : IncrementRead(s)
  \/ \E s \in IncrCalls : IncrementSet(s)
  \/ \E s \in IncrCalls, readOk \in BOOLEAN : TotalRead(s, readOk)
  \/ \E s \in IncrCalls : TotalSetTo(s, Returned(s))
  \/ \E s \in IncrCalls : CallFailsTo(s, Returned(s))

SpecIncr == InitIncr /\ [][NextIncr]_vars

\* ==================================================================== claims

\* C1: a direct send by a regular user to an existing recipient is accepted
\* (message stored, 201 returned) exactly when the recipient is an admin; to a
\* regular recipient it is answered 403 and nothing is stored for that pair.
\* The request is well formed (it carries a text) and the store can write.
C1_RegularSendsOnlyToAdmins ==
  /\ \A jwt \in SendRequests, to \in Users :
       (~users[jwt.userId].isAdmin /\ Found(jwt.userId) /\ Found(to)) =>
          /\ (ChatSendStatus(jwt, to, "text", TRUE) = 201) <=> users[to].isAdmin
          /\ ~users[to].isAdmin =>
                \A in \in SendInputs :
                   in[1] = "text" => ChatSendStatus(jwt, to, in[1], in[2]) = 403
  /\ \A i \in 1..Len(messages) :
       ~users[messages[i].from].isAdmin => users[messages[i].to].isAdmin
  /\ \A c \in chats :
       ~users[messages[c.id].from].isAdmin => users[messages[c.id].to].isAdmin
  /\ \A r \in Regulars, p \in Regulars : p \notin DOMAIN unread[r].direct
  /\ (last.op = "send" /\ last.status = 201) =>
        /\ Len(messages) > 0
        /\ messages[Len(messages)].from = last.user
        /\ ~users[last.user].isAdmin => users[messages[Len(messages)].to].isAdmin

C1_Witness ==
  /\ last = Resp("send", "U1", 403)
  /\ \E i \in 1..Len(messages) : messages[i].from = "U1" /\ messages[i].to = "A1"

\* C2: a login of a regular user without violations whose live session was
\* opened from another fingerprint leaves the old token rejected with 401 on
\* every fingerprint, the new token accepted on the new fingerprint, and
\* exactly one multiple_login_attempt in the violation log.
C2_SecondDeviceLogin ==
  [][\A u \in RegularClients, T1 \in 1..MaxTokens, T2 \in 1..MaxTokens,
        F2 \in Fingerprints :
       (/\ last' = Resp("login", u, 200)
        /\ users' # users
        /\ users[u].activeSession.isActive
        /\ users[u].activeSession.sessionToken = T1
        /\ users[u].activeSession.deviceFingerprint # F2
        /\ Log(u) = <<>>
        /\ users'[u].activeSession.sessionToken = T2
        /\ users'[u].activeSession.deviceFingerprint = F2)
       => /\ \A fp \in Fingerprints :
               (ValidateSessionStatus(OkJwt(u, T1), fp))' = 401
          /\ (ValidateSessionStatus(OkJwt(u, T2), F2))' = 200
          /\ Log(u)' = <<"multiple_login_attempt">>
          /\ T1 \in HeldBy(u)
          /\ T2 \in (HeldBy(u))']_vars

C2_Witness ==
  /\ last = Resp("login", "U1", 200)
  /\ Log("U1") = <<"multiple_login_attempt">>
  /\ users["U1"].activeSession = [deviceFingerprint |-> "F2", sessionToken |-> 2,
                                  isActive |-> TRUE]
  /\ issued = <<"U1", "U1">>

\* C3: in every state reached by interleaved register, login, logout,
\* violation and validate requests, at most one (session token, fingerprint)
\* pair passes session validation for a regular user.
PassingPairs(u) ==
  {p \in (0..MaxTokens) \X Fingerprints :
      ValidateSessionStatus(OkJwt(u, p[1]), p[2]) = 200}

C3_AtMostOneLiveSession ==
  /\ \A u \in Regulars : Cardinality(PassingPairs(u)) <= 1
  /\ \A u \in Regulars, n \in 1..Len(issued) : issued[n] # u => \A fp \in Fingerprints :
        ValidateSessionStatus(OkJwt(u, n), fp) # 200

\* two logins are in flight, one has revoked the old session and a session a
\* third login created is live
C3_Witness ==
  /\ procs["r1"].op = "login" /\ procs["r1"].pc = "create"
  /\ procs["r2"].op = "login" /\ procs["r2"].pc = "record"
  /\ Cardinality(PassingPairs(ConcUser)) = 1
  /\ Len(issued) >= 2

\* C4: for a regular user, validate-session answers 200 exactly when the
\* presented session token is the stored one, the presented fingerprint is
\* the stored one, the stored session is active and the user is not blocked.
C4_ValidationIffFourConditions ==
  /\ \A jwt \in Requests, fp \in FpInputs :
       (jwt.userId \in Regulars /\ Found(jwt.userId) /\ jwt.sig = "ok") =>
          LET doc == users[jwt.userId] IN
          (ValidateSessionStatus(jwt, fp) = 200) <=>
             /\ jwt.sessionToken = doc.activeSession.sessionToken
             /\ fp = doc.activeSession.deviceFingerprint
             /\ doc.activeSession.isActive
             /\ ~doc.securityProfile.isBlocked
  /\ (last.op = "validate-session" /\ last.user \in Regulars /\ last.status = 200) =>
        /\ users[last.user].activeSession.isActive
        /\ ~users[last.user].securityProfile.isBlocked

\* a validation was refused with 401 although the session is active, the user
\* is not blocked and only one token was ever issued: the fingerprint differed
C4_Witness ==
  /\ last = Resp("validate-session", "U1", 401)
  /\ users["U1"].activeSession.isActive
  /\ ~users["U1"].securityProfile.isBlocked
  /\ Len(issued) = 1

\* C5: a messaging request of a regular user that carries the token of a
\* session that is no longer the live one (superseded by a login or revoked
\* by logout) is answered 401.
LiveToken(u, n) ==
  users[u].activeSession.isActive /\ users[u].activeSession.sessionToken = n

C5_StaleTokenRejectedByMessaging ==
  \A u \in RegularClients, n \in 1..Len(issued) :
     (Found(u) /\ n \in HeldBy(u) /\ ~LiveToken(u, n)) =>
        /\ ChatSendStatus(OkJwt(u, n), "A1", "text", TRUE) = 401
        /\ ChatGroupSendStatus(OkJwt(u, n), "G1", "text", TRUE) = 401
        /\ ChatGetMessagesStatus(OkJwt(u, n), "A1") = 401
        /\ ChatMarkReadStatus(OkJwt(u, n), "A1") = 401
        /\ ChatUnreadCountsStatus(OkJwt(u, n)) = 401

\* C6: for a user no admin has blocked or unblocked (block-user and
\* unblock-user leave their mark in blockReason): with at most 2 events in the
\* log the user is not blocked, and from the record that brings the log to 3
\* events on the user is blocked with a reason and a blockedAt.
NoAdminMark(u) ==
  users[u].securityProfile.blockReason \in {"undefined", AutoBlockReason}

C6_ThirdViolationBlocks ==
  \A u \in Regulars :
     (Found(u) /\ NoAdminMark(u)) =>
        LET sp == users[u].securityProfile IN
        /\ Len(sp.securityViolations) <= 2 => ~sp.isBlocked
        /\ Len(sp.securityViolations) >= 3 =>
              /\ sp.isBlocked
              /\ sp.blockReason \notin {"undefined", "null"}
              /\ sp.blockedAt \notin {"undefined", "null"}

C6_Witness ==
  /\ last = Resp("violation", "U1", 200)
  /\ Len(Log("U1")) = 3
  /\ users["U1"].securityProfile.isBlocked
  /\ users["U1"].securityProfile.blockReason = AutoBlockReason

\* C7: with concurrent violation recordings and no admin unblock, once no
\* request is in flight a user whose log holds 3 or more events is blocked.
Quiescent == \A s \in Slots : procs[s] = IdleProc

C7_QuiescentThresholdBlocks ==
  \A u \in Regulars :
     (Quiescent /\ Found(u) /\ Len(Log(u)) >= BlockThreshold) =>
        users[u].securityProfile.isBlocked

\* C8: a direct or group send of a blocked sender is rejected.
C8_BlockedSenderRejected ==
  (last.op \in {"send", "group-send"} /\ isUserBlocked(users[last.user])) =>
     last.status \notin {200, 201}

\* C9: every request of a blocked user is answered 403.
C9_BlockedAlwaysForbidden ==
  \A u \in RegularClients :
     (Found(u) /\ isUserBlocked(users[u])) =>
        /\ \A fp \in Fingerprints : LoginStatus(u, fp, TRUE) = 403
        /\ \A n \in HeldBy(u), fp \in Fingerprints :
              /\ ValidateSessionStatus(OkJwt(u, n), fp) = 403
              /\ RefreshTokenStatus(OkJwt(u, n), fp) = 403
              /\ ChatSendStatus(OkJwt(u, n), "A1", "text", TRUE) = 403
              /\ ChatGroupSendStatus(OkJwt(u, n), "G1", "text", TRUE) = 403
              /\ ViolationStatus(OkJwt(u, n), "screenshot_attempt", TRUE) = 403

\* C10: once the remove of a clear of (recipient, source) has been applied,
\* get(recipient) reports that counter as absent, and it stays absent until
\* the next write of an increment of that key is applied, however the reads
\* and writes of earlier increments were interleaved; a clear of a key that
\* holds no counter raises no error, goes on to its total update and leaves
\* the recipient's direct and group counters as they were.
RemoveStep(s, k) ==
  /\ procs[s].op = "clear" /\ procs[s].pc = "remove" /\ KeyOf(procs[s]) = k
  /\ procs'[s].pc = "total"
SetStep(s, k) ==
  /\ procs[s].op = "increment" /\ procs[s].pc = "set" /\ KeyOf(procs[s]) = k
  /\ procs'[s].pc = "total"
Reported(k) == getUserUnreadCounts(unread[CounterUser])[k[1]]
Absent(k) == k[2] \notin DOMAIN Reported(k) /\ Val(Reported(k), k[2]) = 0

C10_ClearAppliedLastLeavesNoCounter ==
  [][\A k \in CounterKeys :
       /\ (\E s \in Slots : RemoveStep(s, k)) => Absent(k)'
       /\ (Absent(k) /\ ~\E s \in Slots : SetStep(s, k)) => Absent(k)'
       /\ \A s \in Slots :
            (RemoveStep(s, k) /\ Absent(k)) =>
               /\ unread'[CounterUser].direct = unread[CounterUser].direct
               /\ unread'[CounterUser].groups = unread[CounterUser].groups
               /\ procs'[s].op = "clear"]_vars

\* a clear has removed the direct counter after increments had been counted
\* into the stored total; the group counter is still there
C10_Witness ==
  /\ procs["r1"] = Call("clear", "total", <<"direct", "U1">>, 0)
  /\ unread[CounterUser].direct = EmptyNode
  /\ Val(unread[CounterUser].groups, "G1") = 1
  /\ unread[CounterUser].total = <<3>>

\* C11: with increments only, the stored value of a counter is never
\* negative and never larger than its starting value plus the number of
\* increment calls made on it so far, in every interleaving of their reads
\* and writes.
Started(k) ==
  Cardinality({s \in IncrCalls : procs[s] # IdleCall /\ KeyOf(procs[s]) = k})

C11_IncrementsNeverOvercount ==
  \A k \in CounterKeys :
     /\ refVal(unread[CounterUser], k[1], k[2]) >= 0
     /\ refVal(unread[CounterUser], k[1], k[2]) <= StartValue(k) + Started(k)

\* two increments of the direct counter have returned and one of them was
\* lost: the counter holds 1
C11_Witness ==
  /\ procs["i1"] = Call("increment", "done", <<"direct", "U1">>, 0)
  /\ procs["i2"] = Call("increment", "done", <<"direct", "U1">>, 0)
  /\ procs["i3"] = IdleCall
  /\ refVal(unread[CounterUser], "direct", "U1") = 1
  /\ unread[CounterUser].total = <<2>>

C13_FailedPersistAborts ==
  [][(/\ last'.op \in {"send", "group-send"}
      /\ messages' = messages
      /\ groupMessages' = groupMessages)
     => /\ last'.status >= 400
        /\ last'.data = NoData
        /\ UNCHANGED <<chats, groupChats, unread, pushed>>]_vars

\* after one delivered message, A1's group send fails at the save: 500, and
\* the store, the realtime copies, the counters and the push log are those of
\* the first message alone
C13_Witness ==
  /\ last = Resp("group-send", "A1", 500)
  /\ Len(messages) = 1 /\ groupMessages = <<>>
  /\ Cardinality(chats) = 1 /\ groupChats = {}
  /\ unread["U1"] = NoCounts /\ unread["U2"] = NoCounts
  /\ \A p \in pushed : p.kind = "direct"
  /\ users["U1"].fcmTokens /\ users["U2"].fcmTokens

\* C14: a group send to G in which no step fails raises the G counter of
\* every member of G other than the sender by exactly 1 and leaves all the
\* sender's counters as they were
C14_GroupSendIncrementsMembersOnce ==
  [][Len(groupMessages') > Len(groupMessages) =>
       \E g \in Groups, from \in Users :
          /\ groupMessages'[Len(groupMessages')] = [group |-> g, from |-> from]
          /\ \A m \in GroupDoc(g).members \ {from} :
                refVal(unread'[m], "groups", g) = refVal(unread[m], "groups", g) + 1
          /\ unread'[from] = unread[from]
    ]_vars

\* A1 has sent two messages to G1: U1 and U2 hold 2 for G1, A1 holds nothing
C14_Witness ==
  /\ groupMessages = <<[group |-> "G1", from |-> "A1"], [group |-> "G1", from |-> "A1"]>>
  /\ last = RespData("group-send", "A1", 201, [id |-> 2, path |-> groupPath("G1")])
  /\ refVal(unread["U1"], "groups", "G1") = 2
  /\ refVal(unread["U2"], "groups", "G1") = 2
  /\ unread["A1"] = NoCounts

\* C15: in a group send the members are served independently. In runs where
\* the counter increment fails for at most one member and the gateway refuses
\* at most one member, every step that stores a group message leaves at most
\* one member other than the sender without its increment, and calls the
\* gateway for every member other than the sender that holds a token
C15_MembersServedIndependently ==
  [][Len(groupMessages') > Len(groupMessages) =>
       \E g \in Groups, from \in Users :
          /\ groupMessages'[Len(groupMessages')] = [group |-> g, from |-> from]
          /\ Cardinality({m \in GroupDoc(g).members \ {from} :
                            refVal(unread'[m], "groups", g)
                              # refVal(unread[m], "groups", g) + 1}) <= 1
          /\ \A m \in GroupDoc(g).members \ {from} :
                users[m].fcmTokens =>
                   \E p \in pushed' \ pushed :
                      p.kind = "group" /\ p.id = Len(groupMessages') /\ p.to = m
    ]_vars

\* A1's message to G1 with U2's increment failing and the gateway refusing
\* U2: U1's counter is 1 and U1's push went out
C15_Witness ==
  /\ groupMessages = <<[group |-> "G1", from |-> "A1"]>> /\ messages = <<>>
  /\ refVal(unread["U1"], "groups", "G1") = 1
  /\ refVal(unread["U2"], "groups", "G1") = 0
  /\ pushed = {[kind |-> "group", id |-> 1, to |-> "U1", ok |-> TRUE],
               [kind |-> "group", id |-> 1, to |-> "U2", ok |-> FALSE]}

\* C16: the push gateway is called for regular recipients only; no call is
\* ever made for an admin recipient or an admin group member, whether or not
\* the admin holds device tokens
C16_NoPushToAdmins ==
  \A p \in pushed : ~users[p.to].isAdmin

\* C17: a group message is stored only when its sender is a member of the
\* target group and the group is active
C17_GroupSendByMembersOnly ==
  \A i \in 1..Len(groupMessages) :
     /\ GroupDoc(groupMessages[i].group).isActive
     /\ groupMessages[i].from \in GroupDoc(groupMessages[i].group).members

\* C18: a direct send by an admin that is not blocked, to an existing
\* recipient, regular or admin, is accepted on the chat route and on the
\* secure messaging route (in SpecAdmin every send names an existing recipient
\* and carries a text the store accepts)
C18_AdminSendAccepted ==
  (/\ last.op \in {"send", "secure-send"}
   /\ users[last.user].isAdmin
   /\ ~isUserBlocked(users[last.user]))
  => last.status = 201

\* C19: a direct send is accepted only for a recipient that exists and is not
\* soft-deleted: the message answered with 201 is addressed to a user that
\* is not marked deleted
C19_NoSendToDeleted ==
  (last.op = "send" /\ last.status = 201)
  => /\ Found(messages[last.data.id].to)
     /\ ~users[messages[last.data.id].to].isDeleted

\* C20: every stored direct message has a sender different from its recipient
C20_FromDiffersFromTo ==
  \A i \in 1..Len(messages) : messages[i].from # messages[i].to

\* C21: a successful login of a regular user from the device its active
\* session belongs to records no violation and replaces the session: the new
\* token validates on that device and the previous token validates nowhere
C21_SameDeviceLoginReplacesSession ==
  [][\A u \in RegularClients, T1 \in 1..MaxTokens, T2 \in 1..MaxTokens,
        F \in Fingerprints :
       (/\ last' = Resp("login", u, 200)
        /\ issued' # issued
        /\ users[u].activeSession.isActive
        /\ users[u].activeSession.sessionToken = T1
        /\ users[u].activeSession.deviceFingerprint = F
        /\ users'[u].activeSession.sessionToken = T2
        /\ users'[u].activeSession.deviceFingerprint = F)
       => /\ Log(u)' = Log(u)
          /\ (ValidateSessionStatus(OkJwt(u, T2), F))' = 200
          /\ \A fp \in Fingerprints :
               (ValidateSessionStatus(OkJwt(u, T1), fp))' = 401
          /\ T2 # T1]_vars

\* U1 registered on F1 and logged in again on F1: token 2 is the session,
\* the violation log is empty
C21_Witness ==
  /\ last = Resp("login", "U1", 200)
  /\ issued = <<"U1", "U1">>
  /\ users["U1"].activeSession = [deviceFingerprint |-> "F1", sessionToken |-> 2,
                                  isActive |-> TRUE]
  /\ Log("U1") = <<>>

\* C22: once a regular user's session is revoked by a logout, no session
\* validation for that user succeeds, whatever token and fingerprint are
\* presented, and the session stays revoked until a login of that user
\* succeeds
C22_RevokedUntilLogin ==
  [][\A u \in RegularClients :
       /\ last' = Resp("logout", u, 200) => ~users'[u].activeSession.isActive
       /\ (users'[u].exists /\ ~users'[u].activeSession.isActive)
            => \A n \in 0..MaxTokens, fp \in FpInputs :
                  (ValidateSessionStatus(OkJwt(u, n), fp))' # 200
       /\ (users[u].exists /\ ~users[u].activeSession.isActive
             /\ users'[u].activeSession.isActive)
            => last' = Resp("login", u, 200) /\ issued' # issued]_vars

\* U1 has logged out and a validation with its token on its device was
\* refused with 401
C22_Witness ==
  /\ last = Resp("validate-session", "U1", 401)
  /\ users["U1"].exists /\ ~isUserBlocked(users["U1"])
  /\ users["U1"].activeSession = [deviceFingerprint |-> "F1", sessionToken |-> 1,
                                  isActive |-> FALSE]

\* C23 as stated, for every user: a refresh that has just succeeded for a
\* session token succeeds only with the fingerprint and the session token of
\* the stored activeSession pair
C23_RefreshOnlyOnStoredPair ==
  \A u \in Clients, n \in 0..MaxTokens, sig \in {"ok", "expired"}, fp \in FpInputs :
     (/\ last = RespData("refresh-token", u, 200, [token |-> OkJwt(u, n)])
      /\ RefreshTokenStatus([userId |-> u, sessionToken |-> n, sig |-> sig], fp) = 200)
       => /\ n = users[u].activeSession.sessionToken
          /\ fp = users[u].activeSession.deviceFingerprint

\* C23 for regular users: a refresh succeeds only if the session token of the
\* presented JWT, expired or not, and the presented fingerprint equal the
\* stored activeSession pair; a successful refresh answers with a JWT for the
\* stored session token and changes no document, and a refused one answers
\* without a token
C23_RegularRefreshOnlyOnStoredPair ==
  /\ [](\A u \in RegularClients, n \in 0..MaxTokens, sig \in {"ok", "expired"},
           fp \in FpInputs :
          (users[u].exists
             /\ RefreshTokenStatus([userId |-> u, sessionToken |-> n, sig |-> sig],
                                   fp) = 200)
            => /\ n = users[u].activeSession.sessionToken
               /\ fp = users[u].activeSession.deviceFingerprint)
  /\ [][\A u \in RegularClients :
          (last'.op = "refresh-token" /\ last'.user = u) =>
             /\ users' = users /\ issued' = issued
             /\ last'.status = 200 =>
                  last'.data = [token |-> OkJwt(u, users[u].activeSession.sessionToken)]
             /\ last'.status # 200 => last'.data = NoData]_vars

\* U1, whose second login created session token 2, was given a new JWT for
\* session token 2
C23_Witness ==
  /\ last = RespData("refresh-token", "U1", 200, [token |-> OkJwt("U1", 2)])
  /\ users["U1"].activeSession.sessionToken = 2
  /\ users["U1"].activeSession.isActive

\* C24: a user that is blocked stays blocked across every operation; the
\* only step after which a blocked user is no longer blocked is an unblock
\* request of an admin answered 200
C24_BlockedUntilAdminUnblock ==
  [][\A u \in Users :
       (isUserBlocked(users[u]) /\ ~isUserBlocked(users'[u]))
         => /\ last'.op = "unblock-user" /\ last'.status = 200
            /\ users[last'.user].isAdmin]_vars

\* U1, blocked by the admin after one violation of its own, has logged out
\* and is still blocked
C24_Witness ==
  /\ last = Resp("logout", "U1", 200)
  /\ isUserBlocked(users["U1"])
  /\ users["U1"].securityProfile.blockReason = AdminBlockReason
  /\ Len(Log("U1")) = 1

\* C25: an unblock by an admin leaves the target not blocked, with
\* blockReason and blockedAt cleared, and changes nothing else: the violation
\* log, the type counters and the active session of the target, and every
\* other document, are as before
C25_UnblockClearsOnlyTheBlock ==
  [][\A a \in Clients, u \in Users :
       last' = RespData("unblock-user", a, 200, [user |-> u])
         => /\ ~users'[u].securityProfile.isBlocked
            /\ users'[u].securityProfile.blockReason = "null"
            /\ users'[u].securityProfile.blockedAt = "null"
            /\ users'[u].securityProfile.securityViolations
                 = users[u].securityProfile.securityViolations
            /\ users'[u].securityProfile.screenshotAttempts
                 = users[u].securityProfile.screenshotAttempts
            /\ users'[u].securityProfile.copyAttempts
                 = users[u].securityProfile.copyAttempts
            /\ users'[u].activeSession = users[u].activeSession
            /\ \A v \in Users \ {u} : users'[v] = users[v]]_vars

\* U1, blocked by its third violation, was unblocked: the three events and
\* the screenshot counter are still there and its session is still active
C25_Witness ==
  /\ last = RespData("unblock-user", "A1", 200, [user |-> "U1"])
  /\ ~isUserBlocked(users["U1"])
  /\ Len(Log("U1")) = 3
  /\ users["U1"].securityProfile.screenshotAttempts > 0
  /\ users["U1"].activeSession.isActive

\* C26: the violation log of a user is append-only: across every step the
\* log before the step is a prefix of the log after it
C26_ViolationLogAppendOnly ==
  [][\A u \in Users :
       /\ Len(Log(u)') >= Len(Log(u))
       /\ SubSeq(Log(u)', 1, Len(Log(u))) = Log(u)]_vars

\* U1's log holds a reported screenshot and then a login from another device,
\* and the admin has since blocked U1
C26_Witness ==
  /\ last = Resp("block-user", "A1", 200)
  /\ Log("U1") = <<"screenshot_attempt", "multiple_login_attempt">>
  /\ users["U1"].securityProfile.blockReason = AdminBlockReason


\* C27: when notifying the administrators fails while a violation is being
\* reported (the request is answered 500), the user's record keeps both the
\* appended event and the block decision taken for it.
C27_NotifyFailureRollsBackNothing ==
  [][\A u \in Clients :
       (last'.op = "violation" /\ last'.status = 500 /\ last'.user = u) =>
       \A n \in HeldBy(u), type \in validTypes :
          LET jwt == OkJwt(u, n) IN
          (ViolationSaved(jwt, type) /\ ReportViolation(jwt, type, FALSE)) =>
             /\ Log(jwt.userId)' = Append(Log(jwt.userId), type)
             /\ Len(Log(jwt.userId)) + 1 >= BlockThreshold =>
                   /\ users'[jwt.userId].securityProfile.isBlocked
                   /\ users'[jwt.userId].securityProfile.blockReason = AutoBlockReason]_vars

\* the third report of a user failed to notify: the log holds three events
\* and the account is blocked by the threshold
C27_Witness ==
  /\ last = Resp("violation", "U1", 500)
  /\ Len(Log("U1")) = BlockThreshold
  /\ users["U1"].securityProfile.isBlocked
  /\ users["U1"].securityProfile.blockReason = AutoBlockReason


\* C28: for each of the violation types screenshot_attempt, copy_attempt,
\* forward_attempt, unauthorized_access (reported over /violation) and
\* multiple_login_attempt (recorded by a login from another device), recording
\* a violation of that type for a non-blocked user appends exactly one event
\* of that type to the user's log and applies the block threshold.
C28_EveryTypeAppendsOneEvent ==
  [][\A u \in Clients :
       LET Appended(type) ==
             /\ Log(u)' = Append(Log(u), type)
             /\ users'[u].securityProfile.isBlocked = (Len(Log(u)) + 1 >= BlockThreshold)
       IN
       /\ (last'.op = "violation" /\ last'.user = u) =>
             \A type \in validTypes :
                (/\ SecureAuthStatus(OkJwt(u, 0)) = 0
                 /\ Len(Log(u)) < MaxLog
                 /\ \E notifyOk \in BOOLEAN : ReportViolation(OkJwt(u, 0), type, notifyOk))
                   => Appended(type)
       /\ (last'.op = "login" /\ last'.user = u /\ last'.status = 200) =>
             \A fp \in Fingerprints :
                (LoginDetectsOtherDevice(users[u], fp) /\ Login(u, fp, TRUE))
                   => Appended("multiple_login_attempt")]_vars


\* C29: a request rejected for a session or permission failure mutates
\* nothing: a send answered 401, 403 or 404 leaves the stored messages, the
\* published realtime entries and every unread counter as they were, and a
\* session validation or refresh that is not answered 200 leaves every
\* user's activeSession and violation log as they were.
C29_RejectionMutatesNothing ==
  [][/\ (last'.op \in {"send", "group-send", "secure-send"}
            /\ last'.status \in {401, 403, 404})
          => UNCHANGED <<messages, groupMessages, secureMessages, chats, groupChats,
                         unread, pushed>>
     /\ (last'.op \in {"validate-session", "refresh-token"} /\ last'.status # 200)
          => \A u \in Users :
                /\ users'[u].activeSession = users[u].activeSession
                /\ Log(u)' = Log(u)]_vars

\* a message is stored and published, and the last request was the regular
\* user's send to another regular user, refused with 403
C29_Witness ==
  /\ last = Resp("send", "U1", 403)
  /\ Len(messages) = 1 /\ chats # {}
  /\ unread["A1"] # NoCounts


\* C30: after any sequence or interleaving of single-user delete and bulk
\* delete requests issued by admins, at least one admin account remains that
\* is neither removed nor soft-deleted.
C30_AnAdminRemains ==
  \E u \in Users : users[u].exists /\ users[u].isAdmin /\ ~users[u].isDeleted


\* C31: a logout request carrying a token whose session token is not the one
\* of the user's current active session does not revoke that session: the
\* current token still validates from its device afterwards.
C31_StaleLogoutKeepsSession ==
  [][\A u \in RegularClients :
       (/\ last'.op = "logout" /\ last'.user = u
        /\ users[u].exists /\ users[u].activeSession.isActive
        /\ \E n \in HeldBy(u) :
              /\ n # users[u].activeSession.sessionToken
              /\ Logout(OkJwt(u, n)))
         => validateDeviceSession(users'[u], users[u].activeSession.deviceFingerprint,
                                  users[u].activeSession.sessionToken)]_vars


\* C32: a login never both answers with success and leaves the user blocked:
\* when the multiple_login_attempt recorded during a login from a new device
\* reaches the block threshold, that login creates no active session.
C32_NoSuccessfulLoginOfBlockedUser ==
  \A u \in RegularClients :
     last = Resp("login", u, 200) =>
        ~(isUserBlocked(users[u]) /\ users[u].activeSession.isActive)


\* C33: an admin account is never blocked: after any sequence of violation
\* reports, logins and admin block requests every user with the admin role
\* has isBlocked = false.
C33_AdminNeverBlocked ==
  \A u \in Users : (users[u].exists /\ users[u].isAdmin) => ~isUserBlocked(users[u])


\* C34: when a clear of a counter has completed while an increment of the
\* same key was between its read and its write (the stored value is below
\* the value the increment read), the increment's write does not bring the
\* counts read before the clear back: it leaves the counter at most one
\* above what is stored, one for each increment in flight during the clear.
C34_ClearedCountsNotResurrected ==
  [][\A s \in Slots, k \in CounterKeys :
       (SetStep(s, k) /\ refVal(unread[CounterUser], k[1], k[2]) < procs[s].read)
         => refVal(unread'[CounterUser], k[1], k[2])
              <= refVal(unread[CounterUser], k[1], k[2]) + 1]_vars


\* C35: whenever no counter operation for the recipient is in flight, the
\* total stored for the recipient equals the sum of the recipient's stored
\* direct and group counters, in every interleaving of increments and clears
\* on different sources.
C35_QuiescentTotalIsSum ==
  (\A s \in Slots : procs[s] = IdleCall) =>
     \/ unread[CounterUser].total = <<>>
     \/ unread[CounterUser].total = <<getUserUnreadCounts(unread[CounterUser]).total>>


\* C36: in every sequential run of direct sends and mark-conversation-read
\* requests in which no store operation fails, the stored counter for
\* (recipient, partner) equals the number of stored messages from partner to
\* recipient whose readBy does not contain the recipient.
UnreadMessages(recipient, partner) ==
  {i \in 1..Len(messages) : /\ messages[i].from = partner
                            /\ messages[i].to = recipient
                            /\ recipient \notin ReadByUsers(messages[i])}

C36_CounterEqualsUnreadMessages ==
  \A recipient \in Users, partner \in Users :
     refVal(unread[recipient], "direct", partner)
        = Cardinality(UnreadMessages(recipient, partner))

\* A1 has read U1's first message and U1 has sent a second one: one of the
\* two stored messages is unread and the counter holds 1
C36_Witness ==
  /\ last.op = "send" /\ last.user = "U1" /\ last.status = 201
  /\ Len(messages) = 2
  /\ messages[1] = [from |-> "U1", to |-> "A1", text |-> "text", readBy |-> <<"A1">>]
  /\ messages[2] = [from |-> "U1", to |-> "A1", text |-> "text", readBy |-> <<>>]
  /\ refVal(unread["A1"], "direct", "U1") = 1


\* C37: in every reachable state each published realtime copy carries the id
\* of a message present in the durable store, under the path of that
\* message, and, no counter being cleared in these runs, a recipient's
\* counter for a source never exceeds the number of stored messages from that
\* source to that recipient: publish and increment follow a successful save.
C37_PublishAndIncrementFollowPersist ==
  /\ \A c \in chats :
        /\ c.id \in 1..Len(messages)
        /\ c.path = chatPath(messages[c.id].from, messages[c.id].to)
  /\ \A c \in groupChats :
        /\ c.id \in 1..Len(groupMessages)
        /\ c.path = groupPath(groupMessages[c.id].group)
  /\ \A recipient \in Users, source \in Users :
        refVal(unread[recipient], "direct", source)
          <= Cardinality({i \in 1..Len(messages) :
                            messages[i].from = source /\ messages[i].to = recipient})
  /\ \A recipient \in Users, g \in Groups :
        refVal(unread[recipient], "groups", g)
          <= Cardinality({i \in 1..Len(groupMessages) :
                            /\ groupMessages[i].group = g
                            /\ groupMessages[i].from # recipient
                            /\ recipient \in GroupDoc(g).members})

\* one direct and one group message are stored, published and counted, and
\* the last request was a send whose save failed
C37_Witness ==
  /\ last = Resp("send", "U1", 500)
  /\ Len(messages) = 1 /\ Len(groupMessages) = 1
  /\ Cardinality(chats) = 1 /\ Cardinality(groupChats) = 1
  /\ refVal(unread["A1"], "direct", "U1") = 1
  /\ refVal(unread["U2"], "groups", "G1") = 1


\* C38 as stated: after an admin unblocks a user whose violation log holds 3
\* or more events, the user stays unblocked until the next violation is
\* recorded, and the first violation recorded after the unblock blocks the
\* user again.
C38_UnblockedUntilNextViolation ==
  [][\A u \in RegularClients :
       /\ (/\ Len(Log(u)) >= BlockThreshold
           /\ ~isUserBlocked(users[u]) /\ isUserBlocked(users'[u]))
            => Len(Log(u)') > Len(Log(u))
       /\ (Len(Log(u)) >= BlockThreshold /\ Len(Log(u)') > Len(Log(u)))
            => isUserBlocked(users'[u])]_vars

\* C38, amended: the unblocked user becomes blocked again only by a recorded
\* violation or by an admin's block request, and with 3 or more events in
\* the log every recorded violation blocks the user.
C38_UnblockedUntilViolationOrAdminBlock ==
  [][\A u \in RegularClients :
       /\ (/\ Len(Log(u)) >= BlockThreshold
           /\ ~isUserBlocked(users[u]) /\ isUserBlocked(users'[u]))
            => \/ Len(Log(u)') > Len(Log(u))
               \/ last' = Resp("block-user", "A1", 200)
       /\ (Len(Log(u)) >= BlockThreshold /\ Len(Log(u)') > Len(Log(u)))
            => /\ isUserBlocked(users'[u])
               /\ users'[u].securityProfile.blockReason = AutoBlockReason]_vars

\* U1 was blocked by its third event, unblocked by the admin, and its fourth
\* report has blocked it again
C38_Witness ==
  /\ last.op = "violation" /\ last.user = "U1"
  /\ Len(Log("U1")) = BlockThreshold + 1
  /\ isUserBlocked(users["U1"])
  /\ users["U1"].securityProfile.blockReason = AutoBlockReason


\* C39: mark-conversation-read is idempotent and only appends: applying it a
\* second time to the state it leaves changes nothing, each message's readBy
\* holds at most one entry per user, only messages from the partner to the
\* current user are touched, and no message's sender, recipient or body
\* changes.
C39_MarkReadIdempotentAppendOnly ==
  /\ [](\A i \in 1..Len(messages) :
          Cardinality(ReadByUsers(messages[i])) = Len(messages[i].readBy))
  /\ [][\A me \in Clients :
          (last'.op = "mark-read" /\ last'.user = me /\ last'.status = 200) =>
             \E partner \in Users :
                /\ Len(messages') = Len(messages)
                /\ \A i \in 1..Len(messages) :
                      /\ messages'[i].from = messages[i].from
                      /\ messages'[i].to = messages[i].to
                      /\ messages'[i].text = messages[i].text
                      /\ Len(messages'[i].readBy) >= Len(messages[i].readBy)
                      /\ SubSeq(messages'[i].readBy, 1, Len(messages[i].readBy))
                            = messages[i].readBy
                      /\ messages'[i] # messages[i] =>
                            /\ messages[i].from = partner /\ messages[i].to = me
                            /\ messages'[i].readBy = Append(messages[i].readBy, me)
                /\ markAsRead(messages', partner, me, me) = messages'
                /\ clearDirectUnreadCount(unread'[me], partner) = unread'[me]]_vars

\* A1 has marked the conversation with U1 read: U1's message carries A1's
\* entry, A1's own message to U1 carries none, and A1's counter is gone
C39_Witness ==
  /\ last = Resp("mark-read", "A1", 200)
  /\ Len(messages) = 2
  /\ \E i, j \in 1..2 :
        /\ messages[i] = [from |-> "U1", to |-> "A1", text |-> "text", readBy |-> <<"A1">>]
        /\ messages[j] = [from |-> "A1", to |-> "U1", text |-> "text", readBy |-> <<>>]
  /\ refVal(unread["A1"], "direct", "U1") = 0
  /\ refVal(unread["U1"], "direct", "A1") = 1

====
